---- MODULE Spec2Model ----
(***************************************************************************)
(* The reconnecting WebSocket session of shared_lib (WebSocketClient) with *)
(* the JSON-RPC adapter (SolanaRPCWSClient) on top of it.                  *)
(*                                                                         *)
(* Two asyncio tasks share one session object: the "reader" runs start()   *)
(* (the read loop and the reconnect protocol it triggers) and the "caller" *)
(* runs the public operations one after the other.  A step of the model is *)
(* the code a task runs between two suspension points (await).             *)
(*                                                                         *)
(* Specifications: Spec is the session with every public operation;        *)
(* SpecDispatch records the frames that arrive and the callbacks they      *)
(* invoke; SpecSubscribe records what each subscribe operation returned;   *)
(* SpecAxiom is the Axiom client (AxiomWebSocketClient), which has its own *)
(* connect() and _reconnect; SpecPump is the token-trade operations of the *)
(* PumpPortal client (PumpPortalWSClient); SpecRequests is the session     *)
(* with the operations that build JSON-RPC requests; SpecFrames is the     *)
(* read loop with every kind of JSON-RPC frame; SpecAxiomRoute is the      *)
(* Axiom client's read loop and message routing; SpecUnsubscribe records   *)
(* what unsubscribe_method returned; SpecPumpOps is the subscribe and      *)
(* unsubscribe operations of the PumpPortal client; SpecFetch is _fetch of *)
(* the HTTP clients (BaseClient, BaseAioHttpClient); SpecAxiomPulse is the *)
(* Axiom client with its Pulse connection and the handler of each          *)
(* connection; SpecPumpKeys is the PumpPortal operations that change the   *)
(* tracked keys; SpecGiveUp is start() and the reconnect cycle under weak  *)
(* fairness of the reader task; SpecResume is the read loop, with the last *)
(* frame on record, across reconnect cycles; SpecReplay is the reconnect   *)
(* cycle with a caller that subscribes and closes; SpecPumpDispatch and    *)
(* SpecPumpTracked are the PumpPortal client's read loop with the          *)
(* operations that register callbacks and track keys; SpecAxiomRejoin is   *)
(* the Axiom client's reconnect cycle with both subscribe operations.      *)
(***************************************************************************)
EXTENDS Integers, Sequences, FiniteSets, TLC

\* ---------------------------------------------------------------- bounds
MaxSock == 2        \* sockets the transport lets one session open in a run
MaxOps == 2         \* public operations the caller task starts in a run
MaxFrames == 3      \* text frames whose arrival is recorded in a run
MaxMints == 3       \* mint addresses PumpPortalWSClient._subs_mints holds at most

\* ------------------------------------------------------ program constants
max_reconnect_attempts == 5
reconnect_delay_seconds == 5

Tasks == {"reader", "caller"}
NoCb == "none"
SubscriptionIds == {42}

\* A method name is the pair <<stem, suffix>>: "accountSubscribe" is
\* <<"account", "Subscribe">>.
AccountSubscribe == <<"account", "Subscribe">>
SlotSubscribe == <<"slot", "Subscribe">>
Keys == {AccountSubscribe, SlotSubscribe}
\* The method names unsubscribe_method is called with: the topic's key, and the
\* name the JSON-RPC protocol gives the request.
UnsubscribeMethods == {AccountSubscribe, <<"account", "Unsubscribe">>}

\* The calls of the adapter's subscribe operations: subscribe_account(callback,
\* account) and subscribe_slot(callback), as (method, callback, params).
AccountCalls ==
    {[method |-> AccountSubscribe, callback |-> "cb1",
      params |-> <<"Addr1", "confirmed", "jsonParsed">>],
     [method |-> AccountSubscribe, callback |-> "cb2",
      params |-> <<"Addr2", "confirmed", "jsonParsed">>]}
SlotCalls ==
    {[method |-> SlotSubscribe, callback |-> "cb1", params |-> <<>>]}
SubCalls == AccountCalls \cup SlotCalls
NoCall == [method |-> <<>>, callback |-> NoCb, params |-> <<>>]

\* Inbound text frames: a notification per topic, an acknowledgement, and a
\* frame that is not JSON.
NotificationFrames ==
    {[json |-> TRUE, fields |-> {"method", "params"},
      method |-> <<k[1], "Notification">>, params |-> k[1]] : k \in Keys}
AckFrame ==
    [json |-> TRUE, fields |-> {"result", "id"}, method |-> <<>>, params |-> "ack"]
MalformedFrame ==
    [json |-> FALSE, fields |-> {}, method |-> <<>>, params |-> "garbage"]
Frames == NotificationFrames \cup {AckFrame, MalformedFrame}

\* The frames whose arrival is recorded: those that invoke a callback or raise.
RecordedFrames == NotificationFrames \cup {MalformedFrame}

VARIABLES
    ws,                    \* self.ws: 0 is None, else the socket's number
    nsock,                 \* sockets opened so far; socket n is the n-th opened
    open,                  \* the sockets that are open (opened, closed by neither end)
    callbacks,             \* self._callbacks
    active_subscriptions,  \* self._active_subscriptions, in insertion order
    is_reconnecting,       \* self._is_reconnecting
    request_id,            \* SolanaRPCWSClient._request_id
    notifier_raises,       \* the Notifier's configuration: _send_notification raises
    pc,                    \* each task's suspension point
    rsock,                 \* the socket the read loop iterates over
    cur,                   \* the arguments of the caller's pending subscribe
    attempt,               \* _reconnect's loop variable (0: no cycle)
    idx,                   \* replay: entries of the registry iterated so far
    iterLen,               \* replay: the registry's size when its iteration began
    ret,                   \* what the _reconnect call each task made last returned
                           \* (none: no call since the read loop ended, or not over)
    sent,                  \* messages written to the connection self.ws names
    replayed,              \* replay sends of the current cycle, with their outcome
    lastCall,              \* the callback invocations of the last frame dispatched
    arrivals,              \* the text frames recorded, in the order of their arrival
    cbLog,                 \* the callback invocations the recorded frames made, in order
    notifications,         \* messages the Notifier received since the last cycle began
    delays,                \* the delays slept in the current cycle
    nops,                  \* operations the caller has started
    cyc,                   \* history of the last reconnect cycle
    loopEnd,               \* why the read loop last ended
    subscribeOrder,        \* the keys subscribe calls named, in the order of their first call
    unsubd,                \* topics unsubscribed and not subscribed again
    subs,                  \* per key, the last subscribe operation recorded: its
                           \* callback and params, what it returned, and whether it
                           \* replaced a call with another callback or other params
    closed,                \* the last close() with no connect()/start()/subscribe since:
                           \* whether it returned, and whether it was called during
                           \* the backoff sleep of a reconnect cycle
    subs_mints,            \* PumpPortalWSClient._subs_mints
    subs_accounts,         \* PumpPortalWSClient._subs_accounts
    ws_pulse,              \* AxiomWebSocketClient.ws_pulse: 0 is None, else the socket's number
    psock,                 \* the socket the Pulse read loop iterates over
    lastOp                 \* the operation that ended last (PumpPortal operations,
                           \* unsubscribe_method, _fetch): its name, its arguments,
                           \* how it ended, and a bit that alternates from one
                           \* operation to the next (its number, where numbered)

vars == <<ws, nsock, open, callbacks, active_subscriptions, is_reconnecting,
          request_id, notifier_raises, pc, rsock, cur, attempt, idx, iterLen, ret,
          sent, replayed, lastCall, arrivals, cbLog, notifications, delays, nops,
          cyc, loopEnd,
          subscribeOrder, unsubd, subs, closed, subs_mints, subs_accounts, lastOp,
          ws_pulse, psock>>

\* The history of a reconnect cycle: the task that runs it, whether the caller
\* has started no operation since it began, the connect() calls made and those
\* that failed, the first attempt whose connect() succeeded, the _reconnect calls
\* turned away while it ran, and what the cycle returned.
NoCyc == [owner |-> "none", quiet |-> TRUE, connects |-> 0, fails |-> 0, okAt |-> 0,
          rejected |-> 0, deniedAt |-> 0, result |-> "none"]

NoSub == [callback |-> NoCb, params |-> <<>>, result |-> "none", why |-> "none",
          replaced |-> FALSE]

NoOp == [op |-> "none", keys |-> <<>>, outcome |-> "none", n |-> 0]

NotClosed == [returned |-> FALSE, inBackoff |-> FALSE]

\* Some task is in asyncio.sleep(delay) of _reconnect (line 597).
InBackoff == \E t \in Tasks : pc[t] = "rc_sleep"

Init ==
    /\ ws = 0 /\ nsock = 0 /\ open = {}
    /\ callbacks = [k \in Keys |-> NoCb]
    /\ active_subscriptions = <<>>
    /\ is_reconnecting = FALSE
    /\ request_id = 0
    /\ notifier_raises \in BOOLEAN
    /\ pc = [t \in Tasks |-> "idle"]
    /\ rsock = 0 /\ cur = NoCall
    /\ attempt = 0 /\ idx = 0 /\ iterLen = 0
    /\ ret = [t \in Tasks |-> "none"]
    /\ sent = <<>> /\ replayed = <<>> /\ lastCall = <<>> /\ notifications = <<>>
    /\ arrivals = <<>> /\ cbLog = <<>>
    /\ delays = <<>>
    /\ nops = 0
    /\ cyc = NoCyc
    /\ loopEnd = "none"
    /\ subscribeOrder = <<>>
    /\ unsubd = {}
    /\ subs = [k \in Keys |-> NoSub]
    /\ closed = NotClosed
    /\ subs_mints = <<>> /\ subs_accounts = <<>> /\ lastOp = NoOp
    /\ ws_pulse = 0 /\ psock = 0

\* ------------------------------------------------------------- helpers

Range(seq) == {seq[i] : i \in DOMAIN seq}

\* A registry kept as a list of the calls made: every write adds an entry.
PutAlways(reg, call) == Append(reg, call)

\* dict.setdefault(key, value): a key already present keeps its value.
PutIfAbsent(reg, call) ==
    IF \E i \in DOMAIN reg : reg[i].method = call.method THEN reg ELSE Append(reg, call)

\* dict[key] = value on the ordered dict: a key already present keeps its place.
Put(reg, call) ==
    IF \E i \in DOMAIN reg : reg[i].method = call.method
    THEN [i \in DOMAIN reg |-> IF reg[i].method = call.method THEN call ELSE reg[i]]
    ELSE Append(reg, call)

\* self._active_subscriptions.get(method, {}).get("callback")
RegistryCallback(reg, method) ==
    IF \E i \in DOMAIN reg : reg[i].method = method
    THEN (CHOOSE e \in {reg[i] : i \in DOMAIN reg} : e.method = method).callback
    ELSE NoCb

\* self._callbacks.pop(method, None)
Pop(cbs, method) ==
    [k \in DOMAIN cbs |-> IF k = method THEN NoCb ELSE cbs[k]]

\* A counter that hands out the id it holds and stays where it is.
SameId(id) == id

\* _get_next_id: the id the next request carries.
NextId(id) == id + 1

BuildSubscribeMessage(method, params, id) ==
    [jsonrpc |-> "2.0", id |-> id, method |-> method, params |-> params]

BuildUnsubscribeMessage(method, subscription_id, id) ==
    [jsonrpc |-> "2.0", id |-> id, method |-> method, params |-> <<subscription_id>>]

\* A schedule that doubles from the first attempt on: 2 ** (attempt - 1).
BackoffFromFirst(a) == reconnect_delay_seconds * 2 ^ (a - 1)

\* delay = self._reconnect_delay_seconds * (2 ** (attempt - 2)), for attempt > 1
Backoff(a) == reconnect_delay_seconds * 2 ^ (a - 2)

\* The outcomes of _send_json_message on handle w (TRUE: sent): it raises when w
\* is None (line 554) and when the socket w names is no longer open.
SendOutcomes(w, op) == {w # 0 /\ w \in op}

\* A conversion that leaves the method name as the frame carries it.
KeepMethod(method) == method

\* method.replace("Notification", "Subscribe")
Replace(method) ==
    [i \in DOMAIN method |-> IF method[i] = "Notification" THEN "Subscribe" ELSE method[i]]

\* The topic an unsubscribe names: "accountUnsubscribe" names "accountSubscribe".
TopicOf(method) ==
    [i \in DOMAIN method |-> IF method[i] = "Unsubscribe" THEN "Subscribe" ELSE method[i]]

\* A handler that looks for method and params before it looks for result and id.
NotificationFirst(reg, frame) ==
    IF ~frame.json THEN <<>>
    ELSE IF {"method", "params"} \subseteq frame.fields
         THEN LET method == Replace(frame.method)
                  callback == RegistryCallback(reg, method)
              IN  IF callback # NoCb
                  THEN <<[method |-> method, callback |-> callback,
                          arg |-> frame.params]>>
                  ELSE <<>>
         ELSE <<>>

\* SolanaRPCWSClient._message_handler: the callback invocations a frame makes.
MessageHandler(reg, frame) ==
    IF ~frame.json THEN <<>>                                   \* json.loads raises
    ELSE IF {"result", "id"} \subseteq frame.fields THEN <<>>  \* acknowledgement
    ELSE IF {"method", "params"} \subseteq frame.fields
         THEN LET method == Replace(frame.method)
                  callback == RegistryCallback(reg, method)
              IN  IF callback # NoCb
                  THEN <<[method |-> method, callback |-> callback,
                          arg |-> frame.params]>>
                  ELSE <<>>
         ELSE <<>>

\* A handler that calls _reconnect again when it returned false.
RetryForever(t) == "rc_call"

\* Where a task continues when its _reconnect call returned false.
Returned(t) == IF t = "caller" THEN "idle" ELSE "done"

\* A handler that returns once its _reconnect call returned true.
ReturnsAfterReconnect(t, w) == IF t = "caller" THEN "idle" ELSE "done"

\* Where a task continues when its _reconnect call returned true: the read loop
\* is entered again (line 472) and iterates over the handle w, unless there is
\* none (line 416).
Resumed(t, w) == IF t = "caller" THEN "idle" ELSE IF w # 0 THEN "reading" ELSE "done"

\* A cycle that counts as successful only when every replayed entry was sent.
AllRestored(rep) == IF \A i \in DOMAIN rep : rep[i].ok THEN "true" ELSE "false"

\* Line 641: return True, whatever the replay sends did.
CycleResult(rep) == "true"

pulseVars == <<ws_pulse, psock>>
pumpVars == <<subs_mints, subs_accounts, lastOp, pulseVars>>
callerVars == <<cur, nops, subscribeOrder, unsubd, subs, closed, pumpVars>>
logVars == <<arrivals, cbLog>>
readerVars == <<loopEnd, lastCall, logVars>>
registryVars == <<callbacks, active_subscriptions>>

\* ------------------------------------------- WebSocketClient._reconnect

\* A _reconnect without the guard of line 580.
NeverReconnecting == FALSE

\* Line 580: the guard against a second cycle.
AlreadyReconnecting == is_reconnecting

\* The history of a cycle that begins now, run by task t.
NewCyc(t) ==
    [owner |-> t, quiet |-> (pc["caller"] = "idle"), connects |-> 0, fails |-> 0,
     okAt |-> 0, rejected |-> 0, deniedAt |-> 0, result |-> "running"]

\* The caller starts an operation.
Disturb(c) == [c EXCEPT !.quiet = FALSE]

\* Lines 599-606: close the stale handle if there is one (and wait for that),
\* else call connect() and wait for it; c is the cycle's history so far.
TryClose(t, c) ==
    IF ws # 0
    THEN /\ open' = open \ {ws}
         /\ pc' = [pc EXCEPT ![t] = "rc_close"]
         /\ cyc' = c
    ELSE /\ open' = open
         /\ pc' = [pc EXCEPT ![t] = "rc_connect"]
         /\ cyc' = [c EXCEPT !.connects = @ + 1]

\* The last attempt the for loop of line 587 makes.
LastAttempt == max_reconnect_attempts

\* An attempt ended without "return True" (connect() returned false: continue;
\* or an exception reached line 643): the loop goes on to the next attempt and
\* its backoff sleep, or ends after the last one: return False, and the finally
\* clause clears the flag.
FailAttempt(t, c) ==
    IF attempt < LastAttempt
    THEN /\ attempt' = attempt + 1
         /\ delays' = Append(delays, Backoff(attempt + 1))
         /\ pc' = [pc EXCEPT ![t] = "rc_sleep"]
         /\ cyc' = c
         /\ UNCHANGED <<is_reconnecting, ret>>
    ELSE /\ attempt' = 0
         /\ delays' = delays
         /\ pc' = [pc EXCEPT ![t] = Returned(t)]
         /\ cyc' = [c EXCEPT !.result = "false"]
         /\ is_reconnecting' = FALSE
         /\ ret' = [ret EXCEPT ![t] = "false"]

\* A replay that goes through the registry and sends nothing.
ReplaySkipped(i, base, w, op) ==
    /\ idx' = i
    /\ sent' = base
    /\ UNCHANGED <<request_id, replayed>>

\* Lines 613-628, one entry: build the subscribe message of registry entry i and
\* send it on handle w; a failure is logged.  base is the connection's log.
ReplaySend(i, base, w, op) ==
    LET e == active_subscriptions[i]
        msg == BuildSubscribeMessage(e.method, e.params, NextId(request_id))
    IN  \E ok \in SendOutcomes(w, op) :
            /\ request_id' = NextId(request_id)
            /\ sent' = IF ok THEN Append(base, msg) ELSE base
            /\ replayed' = Append(replayed, [method |-> e.method, params |-> e.params,
                                             ok |-> ok, attempt |-> attempt])
            /\ idx' = i

\* A message that counts the attempts from zero.
ReconnectedNoteFromZero(a) == [kind |-> "reconnected", attempt |-> a - 1]

\* The message of line 635: "Successfully restored after {attempt} attempt(s)".
ReconnectedNote(a) == [kind |-> "reconnected", attempt |-> a]

\* _reconnect is entered (lines 580-606, attempt 1, which does not sleep).
RcEnter(t) ==
    /\ pc[t] = "rc_call"
    /\ IF AlreadyReconnecting
       THEN /\ pc' = [pc EXCEPT ![t] = Returned(t)]
            /\ ret' = [ret EXCEPT ![t] = "false"]
            /\ cyc' = [cyc EXCEPT !.rejected = @ + 1]
            /\ UNCHANGED <<ws, nsock, open, registryVars, is_reconnecting,
                           request_id, notifier_raises, rsock, attempt, idx, iterLen,
                           sent, replayed, notifications, delays, callerVars,
                           readerVars>>
       ELSE /\ is_reconnecting' = TRUE
            /\ attempt' = 1
            /\ idx' = 0 /\ iterLen' = 0
            /\ delays' = <<>> /\ replayed' = <<>> /\ notifications' = <<>>
            /\ ret' = [ret EXCEPT ![t] = "none"]
            /\ TryClose(t, NewCyc(t))
            /\ UNCHANGED <<ws, nsock, registryVars, request_id, notifier_raises, rsock,
                           sent, callerVars, readerVars>>

\* asyncio.sleep(delay) of line 597 is over.
RcSleepDone(t) ==
    /\ pc[t] = "rc_sleep"
    /\ TryClose(t, cyc)
    /\ UNCHANGED <<ws, nsock, registryVars, is_reconnecting, request_id, notifier_raises,
                   rsock, attempt, idx, iterLen, ret, sent, replayed, notifications,
                   delays, callerVars, readerVars>>

\* self.ws.close() of line 602 is over: self.ws = None, then connect() is called.
RcCloseDone(t) ==
    /\ pc[t] = "rc_close"
    /\ ws' = 0
    /\ pc' = [pc EXCEPT ![t] = "rc_connect"]
    /\ cyc' = [cyc EXCEPT !.connects = @ + 1]
    /\ UNCHANGED <<nsock, open, registryVars, is_reconnecting, request_id,
                   notifier_raises, rsock, attempt, idx, iterLen, ret, sent, replayed,
                   notifications, delays, callerVars, readerVars>>

\* connect() of line 606 is over.  On success the replay begins: the iteration of
\* the registry starts and its first entry is sent, or, the registry being empty,
\* the Notifier is called.  On failure: continue.
RcConnectDone(t) ==
    /\ pc[t] = "rc_connect"
    /\ \/ /\ nsock < MaxSock
          /\ nsock' = nsock + 1
          /\ open' = open \cup {nsock + 1}
          /\ ws' = nsock + 1
          /\ iterLen' = Len(active_subscriptions)
          /\ cyc' = [cyc EXCEPT !.okAt = IF @ = 0 THEN attempt ELSE @]
          /\ IF Len(active_subscriptions) = 0
             THEN /\ pc' = [pc EXCEPT ![t] = "rc_notify"]
                  /\ sent' = <<>>
                  /\ idx' = 0
                  /\ UNCHANGED <<request_id, replayed>>
             ELSE /\ pc' = [pc EXCEPT ![t] = "rc_replay"]
                  /\ ReplaySend(1, <<>>, nsock + 1, open \cup {nsock + 1})
          /\ UNCHANGED <<is_reconnecting, attempt, ret, delays>>
       \/ /\ FailAttempt(t, [cyc EXCEPT !.fails = @ + 1])
          /\ UNCHANGED <<ws, nsock, open, request_id, idx, iterLen, sent, replayed>>
    /\ UNCHANGED <<registryVars, notifier_raises, rsock, notifications,
                   callerVars, readerVars>>

\* The send of a replayed entry is over.  The dict iterator raises RuntimeError
\* when the registry changed size since the iteration began; else the next entry
\* is sent, or, after the last one, the Notifier is called (line 635).
RcReplayResume(t) ==
    /\ pc[t] = "rc_replay"
    /\ IF Len(active_subscriptions) # iterLen
       THEN /\ FailAttempt(t, cyc)
            /\ UNCHANGED <<request_id, idx, sent, replayed>>
       ELSE IF idx < iterLen
       THEN /\ ReplaySend(idx + 1, sent, ws, open)
            /\ UNCHANGED <<pc, cyc, attempt, delays, is_reconnecting, ret>>
       ELSE /\ pc' = [pc EXCEPT ![t] = "rc_notify"]
            /\ UNCHANGED <<request_id, idx, sent, replayed, cyc, attempt, delays,
                           is_reconnecting, ret>>
    /\ UNCHANGED <<ws, nsock, open, registryVars, notifier_raises, rsock,
                   iterLen, notifications, callerVars, readerVars>>

\* _send_notification of line 635 is over.  If it raised, line 643 catches it and
\* the loop goes on; else return True (finally: the flag is cleared), and the read
\* loop (line 472) resumes on self.ws.
RcNotifyDone(t) ==
    /\ pc[t] = "rc_notify"
    /\ IF notifier_raises
       THEN /\ FailAttempt(t, cyc)
            /\ UNCHANGED <<notifications, rsock>>
       ELSE /\ notifications' = Append(notifications, ReconnectedNote(attempt))
            /\ is_reconnecting' = FALSE
            /\ attempt' = 0
            /\ ret' = [ret EXCEPT ![t] = CycleResult(replayed)]
            /\ cyc' = [cyc EXCEPT !.result = CycleResult(replayed)]
            /\ pc' = [pc EXCEPT ![t] = Resumed(t, ws)]
            /\ rsock' = IF t = "reader" /\ ws # 0 THEN ws ELSE rsock
            /\ UNCHANGED delays
    /\ UNCHANGED <<ws, nsock, open, registryVars, request_id, notifier_raises,
                   idx, iterLen, sent, replayed, callerVars, readerVars>>

\* ---------------------------- WebSocketClient.start / _connection_handler

\* start() is called: connect() if there is no handle (and wait for it), else the
\* read loop begins on self.ws.
Start ==
    /\ pc["reader"] = "idle"
    /\ closed' = NotClosed
    /\ IF ws = 0
       THEN /\ pc' = [pc EXCEPT !["reader"] = "start_connect"]
            /\ rsock' = rsock
       ELSE /\ pc' = [pc EXCEPT !["reader"] = "reading"]
            /\ rsock' = ws
    /\ UNCHANGED <<ws, nsock, open, registryVars, is_reconnecting, request_id,
                   notifier_raises, cur, attempt, idx, iterLen, ret, sent, replayed,
                   notifications, delays, nops, cyc, subscribeOrder, subs, pumpVars, unsubd, readerVars>>

\* connect() called by start() is over: on failure start() returns.
StartConnectDone ==
    /\ pc["reader"] = "start_connect"
    /\ \/ /\ nsock < MaxSock
          /\ nsock' = nsock + 1
          /\ open' = open \cup {nsock + 1}
          /\ ws' = nsock + 1
          /\ sent' = <<>>
          /\ rsock' = nsock + 1
          /\ pc' = [pc EXCEPT !["reader"] = "reading"]
          /\ UNCHANGED loopEnd
       \/ /\ pc' = [pc EXCEPT !["reader"] = "done"]
          /\ loopEnd' = "connect_failed"
          /\ UNCHANGED <<ws, nsock, open, sent, rsock>>
    /\ UNCHANGED <<registryVars, is_reconnecting, request_id, notifier_raises,
                   attempt, idx, iterLen, ret, replayed, notifications, delays, cyc,
                   callerVars, lastCall, logVars>>

\* A callback that is not awaited: the loop goes on to the next frame at once.
FireAndForget(calls) == "reading"

\* Line 427: the handler, and with it the callback it invokes, is awaited; the
\* loop is at the callback while it runs.
AwaitCallback(calls) == IF calls = <<>> THEN "reading" ELSE "callback"

\* A read loop that ends when the handling of a frame raised.
StopOnFailure(raised) == IF raised THEN "done" ELSE "reading"

\* Lines 429-438: what the handling of a frame raised is logged, and the loop
\* goes on to the next frame.
AfterFrame(raised) == "reading"

\* A TEXT frame arrives (lines 423-438): _message_handler runs and invokes the
\* callback; a frame that is no JSON raises JSONDecodeError in it.
Receive(f) ==
    /\ pc["reader"] = "reading"
    /\ rsock \in open
    /\ LET calls == MessageHandler(active_subscriptions, f)
       IN  /\ lastCall' = calls
           /\ pc' = [pc EXCEPT !["reader"] = IF f.json THEN AwaitCallback(calls)
                                             ELSE AfterFrame(TRUE)]
    /\ UNCHANGED <<ws, nsock, open, registryVars, is_reconnecting, request_id,
                   notifier_raises, rsock, attempt, idx, iterLen, ret, sent,
                   replayed, notifications, delays, cyc, callerVars, loopEnd>>

\* A frame arrives and is not recorded.
RecvText(f) ==
    /\ Receive(f)
    /\ UNCHANGED logVars

\* A frame arrives and is recorded with the invocation it makes.
RecvFrame(f) ==
    /\ Len(arrivals) < MaxFrames
    /\ Receive(f)
    /\ arrivals' = Append(arrivals, f)
    /\ cbLog' = cbLog \o [i \in DOMAIN lastCall' |->
                            [frame |-> Len(arrivals) + 1,
                             method |-> lastCall'[i].method,
                             callback |-> lastCall'[i].callback,
                             outcome |-> "running"]]

\* The callback returns or raises (line 435): the invocation is over.
CallbackEnds(raised) ==
    /\ pc["reader"] = "callback"
    /\ pc' = [pc EXCEPT !["reader"] = AfterFrame(raised)]
    /\ cbLog' = IF cbLog # <<>> /\ cbLog[Len(cbLog)].outcome = "running"
                THEN [cbLog EXCEPT ![Len(cbLog)].outcome =
                                       IF raised THEN "raised" ELSE "returned"]
                ELSE cbLog
    /\ UNCHANGED <<ws, nsock, open, registryVars, is_reconnecting, request_id,
                   notifier_raises, rsock, attempt, idx, iterLen, ret, sent,
                   replayed, notifications, delays, cyc, callerVars, loopEnd,
                   arrivals>>

\* The invocation is over, and what the frame invoked stays on record.
CallbackDone(raised) ==
    /\ CallbackEnds(raised)
    /\ UNCHANGED lastCall

\* The invocation is over, and no invocation is in progress.
CallbackReturns(raised) ==
    /\ CallbackEnds(raised)
    /\ lastCall' = <<>>

\* The read loop ends and _connection_handler returns, so start() returns, with
\* no reconnection: on an ERROR frame (line 440), on a CLOSE, CLOSING or CLOSED
\* frame (line 444), on an exception that is no aiohttp.ClientError (line 478),
\* and when the iteration ends because the socket was closed on this side.
LoopEnds(why) ==
    /\ pc["reader"] = "reading"
    /\ IF why = "closed_locally" THEN rsock \notin open ELSE rsock \in open
    /\ open' = IF why \in {"error_frame", "close_frame"} THEN open \ {rsock} ELSE open
    /\ pc' = [pc EXCEPT !["reader"] = "done"]
    /\ loopEnd' = why
    /\ ret' = [ret EXCEPT !["reader"] = "none"]
    /\ UNCHANGED <<ws, nsock, registryVars, is_reconnecting, request_id,
                   notifier_raises, rsock, attempt, idx, iterLen, sent, replayed,
                   notifications, delays, cyc, callerVars, lastCall, logVars>>

\* The iteration raises aiohttp.ClientError (line 453): the Notifier is told of
\* the disconnection.
RecvClientError ==
    /\ pc["reader"] = "reading"
    /\ rsock \in open
    /\ open' = open \ {rsock}
    /\ pc' = [pc EXCEPT !["reader"] = "disc_notify"]
    /\ loopEnd' = "client_error"
    /\ ret' = [ret EXCEPT !["reader"] = "none"]
    /\ UNCHANGED <<ws, nsock, registryVars, is_reconnecting, request_id,
                   notifier_raises, rsock, attempt, idx, iterLen, sent, replayed,
                   notifications, delays, cyc, callerVars, lastCall, logVars>>

\* _send_notification of line 459 is over: if it raised, the exception leaves
\* start(); else _reconnect is called (line 467).
DiscNotifyDone ==
    /\ pc["reader"] = "disc_notify"
    /\ IF notifier_raises
       THEN /\ pc' = [pc EXCEPT !["reader"] = "raised"]
            /\ UNCHANGED notifications
       ELSE /\ pc' = [pc EXCEPT !["reader"] = "rc_call"]
            /\ notifications' = Append(notifications,
                                       [kind |-> "disconnected", attempt |-> 0])
    /\ UNCHANGED <<ws, nsock, open, registryVars, is_reconnecting, request_id,
                   notifier_raises, rsock, attempt, idx, iterLen, ret, sent, replayed,
                   delays, cyc, callerVars, readerVars>>

\* --------------------------------------- the caller's public operations

\* connect() is called (lines 265-271): _ensure_session, then ws_connect is
\* awaited.  Nothing looks at self.ws first.
CallConnect ==
    /\ pc["caller"] = "idle"
    /\ nops < MaxOps
    /\ nops' = nops + 1
    /\ cyc' = Disturb(cyc)
    /\ closed' = NotClosed
    /\ pc' = [pc EXCEPT !["caller"] = "connect"]
    /\ UNCHANGED <<ws, nsock, open, registryVars, is_reconnecting, request_id,
                   notifier_raises, rsock, cur, attempt, idx, iterLen, ret, sent,
                   replayed, notifications, delays, subscribeOrder, subs, pumpVars, unsubd,
                   readerVars>>

\* ws_connect is over: self.ws is the new socket (line 271), or connect()
\* returns False and leaves self.ws as it was.
ConnectDone ==
    /\ pc["caller"] = "connect"
    /\ \/ /\ nsock < MaxSock
          /\ nsock' = nsock + 1
          /\ open' = open \cup {nsock + 1}
          /\ ws' = nsock + 1
          /\ sent' = <<>>
       \/ UNCHANGED <<ws, nsock, open, sent>>
    /\ pc' = [pc EXCEPT !["caller"] = "idle"]
    /\ UNCHANGED <<registryVars, is_reconnecting, request_id, notifier_raises,
                   rsock, attempt, idx, iterLen, ret, replayed, notifications, delays,
                   cyc, callerVars, readerVars>>

\* close() is called (lines 207-208): the socket self.ws names is closed (and
\* waited for), and self.ws keeps naming it; with no handle close() returns.
\* The aiohttp session close() disposes of (lines 211-215) is not part of the
\* state: _ensure_session makes a new one whenever connect() needs it.
CallClose ==
    /\ pc["caller"] = "idle"
    /\ nops < MaxOps
    /\ nops' = nops + 1
    /\ cyc' = Disturb(cyc)
    /\ IF ws # 0
       THEN /\ open' = open \ {ws}
            /\ pc' = [pc EXCEPT !["caller"] = "close_ws"]
            /\ closed' = [returned |-> FALSE, inBackoff |-> InBackoff]
       ELSE /\ open' = open
            /\ pc' = pc
            /\ closed' = [returned |-> TRUE, inBackoff |-> InBackoff]
    /\ UNCHANGED <<ws, nsock, registryVars, is_reconnecting, request_id,
                   notifier_raises, rsock, cur, attempt, idx, iterLen, ret, sent,
                   replayed, notifications, delays, subscribeOrder, subs, pumpVars, unsubd,
                   readerVars>>

\* self.ws.close() of close() is over: close() returns.
CloseWsDone ==
    /\ pc["caller"] = "close_ws"
    /\ closed' = [closed EXCEPT !.returned = TRUE]
    /\ pc' = [pc EXCEPT !["caller"] = "idle"]
    /\ UNCHANGED <<ws, nsock, open, registryVars, is_reconnecting, request_id,
                   notifier_raises, rsock, cur, attempt, idx, iterLen, ret, sent,
                   replayed, notifications, delays, nops, cyc, subscribeOrder, subs, pumpVars, unsubd,
                   readerVars>>

\* Lines 500-514 of subscribe_method: the callback is registered, the message
\* built and sent on handle w; base is the connection's log.
SubscribeBody(c, base, w, op) ==
    LET msg == BuildSubscribeMessage(c.method, c.params, NextId(request_id))
    IN  /\ callbacks' = [callbacks EXCEPT ![c.method] = c.callback]
        /\ request_id' = NextId(request_id)
        /\ \E ok \in SendOutcomes(w, op) :
               sent' = IF ok THEN Append(base, msg) ELSE base

\* The registry write of the adapter's subscribe operations (rpc/ws_client.py,
\* lines 212-215), made before subscribe_method is called.
Register(reg, c) == Put(reg, c)

\* A subscribe_method whose failure to build or send leaves it as an exception.
SubscribeRaises(ok) == IF ok THEN "true" ELSE "raised"

\* Lines 502-514: True when the message was built and sent; an exception of
\* either is caught and logged, and False is returned.
SubscribeResult(ok) == IF ok THEN "true" ELSE "false"

\* subscribe_account / subscribe_slot is called: the registry is written, then
\* subscribe_method connects first if there is no handle (line 497).
Subscribe(c) ==
    /\ pc["caller"] = "idle"
    /\ nops < MaxOps
    /\ nops' = nops + 1
    /\ cyc' = Disturb(cyc)
    /\ active_subscriptions' = Register(active_subscriptions, c)
    /\ subscribeOrder' = IF c.method \in Range(subscribeOrder) THEN subscribeOrder
                         ELSE Append(subscribeOrder, c.method)
    /\ unsubd' = unsubd \ {c.method}
    /\ closed' = NotClosed
    /\ IF ws = 0
       THEN /\ cur' = c
            /\ pc' = [pc EXCEPT !["caller"] = "sub_connect"]
            /\ UNCHANGED <<callbacks, request_id, sent>>
       ELSE /\ SubscribeBody(c, sent, ws, open)
            /\ UNCHANGED <<cur, pc>>
    /\ UNCHANGED <<ws, nsock, open, is_reconnecting, notifier_raises, rsock, attempt,
                   idx, iterLen, ret, replayed, notifications, delays, readerVars,
                   pumpVars>>

\* The subscribe operation, its outcome not recorded.
CallSubscribe(c) ==
    /\ Subscribe(c)
    /\ UNCHANGED subs

\* The subscribe operation, recorded with what it returned: nothing yet while
\* it waits for connect().
CallSubscribeRecorded(c) ==
    /\ Subscribe(c)
    /\ subs' = [subs EXCEPT ![c.method] =
                  [callback |-> c.callback, params |-> c.params,
                   result |-> IF ws = 0 THEN "pending"
                              ELSE SubscribeResult(Len(sent') > Len(sent)),
                   why |-> IF ws = 0 THEN "none" ELSE "send",
                   replaced |-> /\ subs[c.method].result # "none"
                                /\ \/ subs[c.method].callback # c.callback
                                   \/ subs[c.method].params # c.params]]

\* connect() called by subscribe_method is over: on failure it returns False.
SubscribeConnect ==
    /\ pc["caller"] = "sub_connect"
    /\ \/ /\ nsock < MaxSock
          /\ nsock' = nsock + 1
          /\ open' = open \cup {nsock + 1}
          /\ ws' = nsock + 1
          /\ SubscribeBody(cur, <<>>, nsock + 1, open \cup {nsock + 1})
       \/ UNCHANGED <<ws, nsock, open, sent, callbacks, request_id>>
    /\ pc' = [pc EXCEPT !["caller"] = "idle"]
    /\ cur' = NoCall
    /\ UNCHANGED <<active_subscriptions, is_reconnecting, notifier_raises,
                   rsock, attempt, idx, iterLen, ret, replayed, notifications, delays,
                   nops, cyc, subscribeOrder, unsubd, closed, readerVars, pumpVars>>

SubscribeConnectDone ==
    /\ SubscribeConnect
    /\ UNCHANGED subs

SubscribeConnectDoneRecorded ==
    /\ SubscribeConnect
    /\ subs' = IF subs[cur.method].result # "pending" THEN subs
               ELSE [subs EXCEPT ![cur.method].result =
                        IF nsock' = nsock THEN "false"
                        ELSE SubscribeResult(Len(sent') > 0),
                                 ![cur.method].why =
                        IF nsock' = nsock THEN "connect" ELSE "send"]

\* unsubscribe_method(method, subscription_id=sid), lines 527-540: the callback
\* is popped, the message built and sent.  The registry is not touched.
Unsubscribe(method, sid, ok) ==
    /\ pc["caller"] = "idle"
    /\ nops < MaxOps
    /\ nops' = nops + 1
    /\ cyc' = Disturb(cyc)
    /\ callbacks' = Pop(callbacks, method)
    /\ request_id' = NextId(request_id)
    /\ unsubd' = unsubd \cup {TopicOf(method)}
    /\ sent' = IF ok
               THEN Append(sent, BuildUnsubscribeMessage(method, sid,
                                                         NextId(request_id)))
               ELSE sent
    /\ UNCHANGED <<ws, nsock, open, active_subscriptions, is_reconnecting,
                   notifier_raises, pc, rsock, cur, attempt, idx, iterLen, ret,
                   replayed, notifications, delays, subscribeOrder, subs, closed,
                   readerVars>>

\* The unsubscribe operation, its outcome not recorded.
CallUnsubscribe(method, sid) ==
    /\ \E ok \in SendOutcomes(ws, open) : Unsubscribe(method, sid, ok)
    /\ UNCHANGED pumpVars

\* An unsubscribe_method that reports failure when the method had no callback.
UnsubscribeIfRegistered(cbs, method, ok) ==
    IF ok /\ method \in DOMAIN cbs /\ cbs[method] # NoCb THEN "true" ELSE "false"

\* Lines 529-540: True when the message was built and sent; an exception of
\* either is caught and logged, and False is returned.  Whether the pop of line
\* 527 found a callback plays no part.
UnsubscribeResult(cbs, method, ok) == IF ok THEN "true" ELSE "false"

\* The unsubscribe operation, recorded with its number among the caller's
\* operations and with what it returned.
CallUnsubscribeRecorded(method, sid) ==
    /\ \E ok \in SendOutcomes(ws, open) :
           /\ Unsubscribe(method, sid, ok)
           /\ lastOp' = [op |-> "unsubscribe_method", keys |-> <<method>>,
                         outcome |-> UnsubscribeResult(callbacks, method, ok),
                         n |-> nops + 1]
    /\ UNCHANGED <<subs_mints, subs_accounts, pulseVars>>

\* The caller invokes _reconnect itself.
CallReconnect ==
    /\ pc["caller"] = "idle"
    /\ nops < MaxOps
    /\ nops' = nops + 1
    /\ cyc' = Disturb(cyc)
    /\ pc' = [pc EXCEPT !["caller"] = "rc_call"]
    /\ ret' = [ret EXCEPT !["caller"] = "none"]
    /\ UNCHANGED <<ws, nsock, open, registryVars, is_reconnecting, request_id,
                   notifier_raises, rsock, cur, attempt, idx, iterLen, sent,
                   replayed, notifications, delays, subscribeOrder, subs, pumpVars, unsubd,
                   closed, readerVars>>

\* ------------------------------------------------- AxiomWebSocketClient

ROOM_NEW_PAIRS == "new_pairs"
ROOM_SOL_PRICE == "sol_price"
AxiomRooms == {ROOM_NEW_PAIRS, ROOM_SOL_PRICE}
AxiomCallbacks == {"cb1", "cb2"}

\* How a connect() call ends: connected; the Authenticator has no valid
\* credentials (line 487); the handshake is rejected with HTTP 401, or fails
\* otherwise (line 516).
AxiomConnectOutcomes == {"connected", "no_credentials", "http_401", "refused"}
AuthRejections == {"no_credentials", "http_401"}

\* The variables the Axiom client has no counterpart of.
baseVars == <<request_id, notifier_raises, lastCall, logVars, loopEnd,
              subscribeOrder, unsubd, subs, closed, pumpVars>>

InitAxiom ==
    /\ ws = 0 /\ nsock = 0 /\ open = {}
    /\ callbacks = [r \in AxiomRooms |-> NoCb]
    /\ active_subscriptions = <<>>
    /\ is_reconnecting = FALSE
    /\ request_id = 0
    /\ notifier_raises = FALSE
    /\ pc = [t \in Tasks |-> "idle"]
    /\ rsock = 0 /\ cur = NoCall
    /\ attempt = 0 /\ idx = 0 /\ iterLen = 0
    /\ ret = [t \in Tasks |-> "none"]
    /\ sent = <<>> /\ replayed = <<>> /\ lastCall = <<>> /\ notifications = <<>>
    /\ arrivals = <<>> /\ cbLog = <<>>
    /\ delays = <<>>
    /\ nops = 0
    /\ cyc = NoCyc
    /\ loopEnd = "none"
    /\ subscribeOrder = <<>>
    /\ unsubd = {}
    /\ subs = [k \in Keys |-> NoSub]
    /\ closed = NotClosed
    /\ subs_mints = <<>> /\ subs_accounts = <<>> /\ lastOp = NoOp
    /\ ws_pulse = 0 /\ psock = 0

\* _send_join_message (lines 961-977).
JoinMessage(room) == [action |-> "join", room |-> room]

\* connect() (lines 487-529): False without a connection attempt when the
\* Authenticator has no valid credentials, False when websockets.connect raises,
\* else self.ws is the new connection and True.
AxiomConnected(o) == o = "connected"

\* start() is called (lines 1196-1202).
AxiomStart ==
    /\ pc["reader"] = "idle"
    /\ IF ws = 0
       THEN /\ pc' = [pc EXCEPT !["reader"] = "start_connect"]
            /\ rsock' = rsock
       ELSE /\ pc' = [pc EXCEPT !["reader"] = "reading"]
            /\ rsock' = ws
    /\ UNCHANGED <<ws, nsock, open, registryVars, is_reconnecting, cur, attempt, idx,
                   iterLen, ret, sent, replayed, notifications, delays, nops, cyc,
                   baseVars>>

\* connect() called by start() is over: on failure start() returns.
AxiomStartConnectDone(o) ==
    /\ pc["reader"] = "start_connect"
    /\ IF AxiomConnected(o)
       THEN /\ nsock < MaxSock
            /\ nsock' = nsock + 1
            /\ open' = open \cup {nsock + 1}
            /\ ws' = nsock + 1
            /\ sent' = <<>>
            /\ rsock' = nsock + 1
            /\ pc' = [pc EXCEPT !["reader"] = "reading"]
       ELSE /\ pc' = [pc EXCEPT !["reader"] = "done"]
            /\ UNCHANGED <<ws, nsock, open, sent, rsock>>
    /\ UNCHANGED <<registryVars, is_reconnecting, cur, attempt, idx, iterLen, ret,
                   replayed, notifications, delays, nops, cyc, baseVars>>

\* The iteration of the read loop raises ConnectionClosed (line 1068); the
\* disconnection notice (line 1074) is sent next.
AxiomConnectionClosed ==
    /\ pc["reader"] = "reading"
    /\ rsock \in open
    /\ open' = open \ {rsock}
    /\ pc' = [pc EXCEPT !["reader"] = "disc_notify"]
    /\ ret' = [ret EXCEPT !["reader"] = "none"]
    /\ UNCHANGED <<ws, nsock, registryVars, is_reconnecting, rsock, cur, attempt, idx,
                   iterLen, sent, replayed, notifications, delays, nops, cyc,
                   baseVars>>

\* _send_telegram_notification (lines 302-308) is over, whatever the bot raised
\* being caught in it; _reconnect is called (line 1083).
AxiomDiscNotifyDone ==
    /\ pc["reader"] = "disc_notify"
    /\ pc' = [pc EXCEPT !["reader"] = "rc_call"]
    /\ notifications' = Append(notifications, [kind |-> "disconnected", attempt |-> 0])
    /\ UNCHANGED <<ws, nsock, open, registryVars, is_reconnecting, rsock, cur, attempt,
                   idx, iterLen, ret, sent, replayed, delays, nops, cyc, baseVars>>

\* _reconnect is entered (lines 355-385): the statements of the base client.
AxiomRcEnter(t) == RcEnter(t)

\* asyncio.sleep(delay) of line 372 is over.
AxiomRcSleepDone(t) == RcSleepDone(t)

\* self.ws.close() of line 377 is over: self.ws = None (line 378), then connect().
AxiomRcCloseDone(t) == RcCloseDone(t)

\* Lines 402-412, one entry: the join message of a "regular" registry entry is
\* sent on handle w; a failure is logged.  base is the connection's log.
AxiomReplaySend(i, base, w, op) ==
    LET e == active_subscriptions[i]
    IN  \E ok \in SendOutcomes(w, op) :
            /\ sent' = IF e.type = "regular" /\ ok
                       THEN Append(base, JoinMessage(e.room)) ELSE base
            /\ replayed' = IF e.type = "regular"
                           THEN Append(replayed, [room |-> e.room, ok |-> ok,
                                                  attempt |-> attempt])
                           ELSE replayed
            /\ idx' = i

\* connect() of line 385 is over.  On success the subscriptions are restored;
\* on failure, whatever its cause (lines 396-397): continue.
AxiomRcConnectDone(t, o) ==
    /\ pc[t] = "rc_connect"
    /\ IF AxiomConnected(o)
       THEN /\ nsock < MaxSock
            /\ nsock' = nsock + 1
            /\ open' = open \cup {nsock + 1}
            /\ ws' = nsock + 1
            /\ iterLen' = Len(active_subscriptions)
            /\ cyc' = [cyc EXCEPT !.okAt = IF @ = 0 THEN attempt ELSE @]
            /\ IF Len(active_subscriptions) = 0
               THEN /\ pc' = [pc EXCEPT ![t] = "rc_notify"]
                    /\ sent' = <<>>
                    /\ idx' = 0
                    /\ UNCHANGED replayed
               ELSE /\ pc' = [pc EXCEPT ![t] = "rc_replay"]
                    /\ AxiomReplaySend(1, <<>>, nsock + 1, open \cup {nsock + 1})
            /\ UNCHANGED <<is_reconnecting, attempt, ret, delays>>
       ELSE /\ FailAttempt(t, [cyc EXCEPT !.fails = @ + 1,
                                          !.deniedAt = IF @ = 0 /\ o \in AuthRejections
                                                       THEN cyc.connects ELSE @])
            /\ UNCHANGED <<ws, nsock, open, idx, iterLen, sent, replayed>>
    /\ UNCHANGED <<registryVars, rsock, notifications, cur, nops, baseVars>>

\* The send of a restored entry is over.  The dict iterator raises RuntimeError
\* when the registry changed size since the iteration began (caught at line
\* 427); else the next entry is sent, or, after the last one, the Notifier is
\* called (line 419).
AxiomRcReplayResume(t) ==
    /\ pc[t] = "rc_replay"
    /\ IF Len(active_subscriptions) # iterLen
       THEN /\ FailAttempt(t, cyc)
            /\ UNCHANGED <<idx, sent, replayed>>
       ELSE IF idx < iterLen
       THEN /\ AxiomReplaySend(idx + 1, sent, ws, open)
            /\ UNCHANGED <<pc, cyc, attempt, delays, is_reconnecting, ret>>
       ELSE /\ pc' = [pc EXCEPT ![t] = "rc_notify"]
            /\ UNCHANGED <<idx, sent, replayed, cyc, attempt, delays,
                           is_reconnecting, ret>>
    /\ UNCHANGED <<ws, nsock, open, registryVars, rsock, iterLen, notifications,
                   cur, nops, baseVars>>

\* _send_telegram_notification of line 419 is over: return True (finally: the
\* flag is cleared), and the read loop (line 1088) resumes on self.ws.
AxiomRcNotifyDone(t) ==
    /\ pc[t] = "rc_notify"
    /\ notifications' = Append(notifications, ReconnectedNote(attempt))
    /\ is_reconnecting' = FALSE
    /\ attempt' = 0
    /\ ret' = [ret EXCEPT ![t] = "true"]
    /\ cyc' = [cyc EXCEPT !.result = "true"]
    /\ pc' = [pc EXCEPT ![t] = IF t = "caller" THEN "idle"
                               ELSE IF ws # 0 THEN "reading" ELSE "done"]
    /\ rsock' = IF t = "reader" /\ ws # 0 THEN ws ELSE rsock
    /\ UNCHANGED <<ws, nsock, open, registryVars, idx, iterLen, sent, replayed,
                   delays, cur, nops, baseVars>>

\* Lines 621-637 of subscribe_new_tokens: the callback and the registry entry
\* are written, the join message is sent on handle w.
AxiomSubscribeBody(callback, base, w, op) ==
    /\ callbacks' = [callbacks EXCEPT ![ROOM_NEW_PAIRS] = callback]
    /\ active_subscriptions' =
          LET e == [room |-> ROOM_NEW_PAIRS, type |-> "regular", callback |-> callback]
          IN  IF \E i \in DOMAIN active_subscriptions :
                    active_subscriptions[i].room = ROOM_NEW_PAIRS
              THEN [i \in DOMAIN active_subscriptions |->
                       IF active_subscriptions[i].room = ROOM_NEW_PAIRS THEN e
                       ELSE active_subscriptions[i]]
              ELSE Append(active_subscriptions, e)
    /\ \E ok \in SendOutcomes(w, op) :
           sent' = IF ok THEN Append(base, JoinMessage(ROOM_NEW_PAIRS)) ELSE base

\* subscribe_new_tokens(callback) is called (lines 616-637): connect() first if
\* there is no handle.
AxiomSubscribeNewTokens(callback) ==
    /\ pc["caller"] = "idle"
    /\ nops < MaxOps
    /\ nops' = nops + 1
    /\ cyc' = Disturb(cyc)
    /\ IF ws = 0
       THEN /\ cur' = [room |-> ROOM_NEW_PAIRS, callback |-> callback]
            /\ pc' = [pc EXCEPT !["caller"] = "sub_connect"]
            /\ UNCHANGED <<registryVars, sent>>
       ELSE /\ AxiomSubscribeBody(callback, sent, ws, open)
            /\ UNCHANGED <<cur, pc>>
    /\ UNCHANGED <<ws, nsock, open, is_reconnecting, rsock, attempt, idx, iterLen, ret,
                   replayed, notifications, delays, baseVars>>

\* connect() called by subscribe_new_tokens is over: on failure it returns False.
AxiomSubscribeConnectDone(o) ==
    /\ pc["caller"] = "sub_connect"
    /\ IF AxiomConnected(o)
       THEN /\ nsock < MaxSock
            /\ nsock' = nsock + 1
            /\ open' = open \cup {nsock + 1}
            /\ ws' = nsock + 1
            /\ AxiomSubscribeBody(cur.callback, <<>>, nsock + 1, open \cup {nsock + 1})
       ELSE UNCHANGED <<ws, nsock, open, sent, registryVars>>
    /\ pc' = [pc EXCEPT !["caller"] = "idle"]
    /\ cur' = NoCall
    /\ UNCHANGED <<is_reconnecting, rsock, attempt, idx, iterLen, ret, replayed,
                   notifications, delays, nops, cyc, baseVars>>

\* --------------------------------------------------- PumpPortalWSClient

ROOM_TOKEN_TRADE == "subscribeTokenTrade"
PumpCallbacks == {"cb1", "cb2"}

\* The keys arguments: lists of mint addresses, the default [] among them.
KeyLists == {<<>>, <<"M1">>, <<"M2">>, <<"M1", "M2">>}

\* The variables the token-trade operations leave alone.
pumpFrame == <<ws, nsock, open, callbacks, is_reconnecting, request_id, notifier_raises,
               pc, rsock, cur, attempt, idx, iterLen, ret, sent, replayed, lastCall,
               logVars, notifications, delays, nops, cyc, loopEnd, subscribeOrder,
               unsubd, subs, closed, subs_accounts, pulseVars>>

InitPump ==
    /\ ws = 0 /\ nsock = 0 /\ open = {}
    /\ callbacks = [r \in {ROOM_TOKEN_TRADE} |-> NoCb]
    /\ active_subscriptions = <<>>
    /\ is_reconnecting = FALSE
    /\ request_id = 0
    /\ notifier_raises = FALSE
    /\ pc = [t \in Tasks |-> "idle"]
    /\ rsock = 0 /\ cur = NoCall
    /\ attempt = 0 /\ idx = 0 /\ iterLen = 0
    /\ ret = [t \in Tasks |-> "none"]
    /\ sent = <<>> /\ replayed = <<>> /\ lastCall = <<>> /\ notifications = <<>>
    /\ arrivals = <<>> /\ cbLog = <<>>
    /\ delays = <<>>
    /\ nops = 0
    /\ cyc = NoCyc
    /\ loopEnd = "none"
    /\ subscribeOrder = <<>>
    /\ unsubd = {}
    /\ subs = [k \in Keys |-> NoSub]
    /\ closed = NotClosed
    /\ subs_mints = <<>> /\ subs_accounts = <<>> /\ lastOp = NoOp
    /\ ws_pulse = 0 /\ psock = 0

\* The operation is recorded with how it ended.
Ended(op, keys, outcome) ==
    lastOp' = [op |-> op, keys |-> keys, outcome |-> outcome, n |-> 1 - lastOp.n]

\* An operation that takes every registry for one with a subscription.
AlwaysSubscribed(reg, room) == TRUE

\* Lines 194-195 (and 212-213): self._active_subscriptions.get(room, {}) is
\* true when the registry has an entry for the room.
HasSubscription(reg, room) == \E i \in DOMAIN reg : reg[i].method = room

\* An update of the tracked keys that leaves the registry entry as it is.
KeepKeys(reg, room, keys) == reg

\* self._active_subscriptions[room]["keys"] = keys (lines 197 and 215).
SetKeys(reg, room, keys) ==
    [i \in DOMAIN reg |-> IF reg[i].method = room THEN [reg[i] EXCEPT !.keys = keys]
                          ELSE reg[i]]

\* [k for k in self._subs_mints if k not in keys] (line 214).
Without(mints, keys) == SelectSeq(mints, LAMBDA k : k \notin Range(keys))

\* subscribe_token_trade(callback, keys), lines 225-230: the mints are added,
\* the registry entry written, and subscribe_method is called with keys as a
\* third positional argument, which its signature (ws_client.py:481-486) does
\* not take: TypeError.
SubscribeTokenTrade(callback, keys) ==
    /\ Len(subs_mints) + Len(keys) <= MaxMints
    /\ subs_mints' = subs_mints \o keys
    /\ active_subscriptions' = Put(active_subscriptions,
                                   [method |-> ROOM_TOKEN_TRADE, callback |-> callback,
                                    keys |-> subs_mints \o keys])
    /\ Ended("subscribe_token_trade", keys, "TypeError")
    /\ UNCHANGED pumpFrame

\* add_token_trade_keys(keys), lines 194-206: with a subscription, the mints
\* are added, the entry's keys updated and subscribe_method called (TypeError);
\* with none, a warning is logged.
AddTokenTradeKeys(keys) ==
    /\ Len(subs_mints) + Len(keys) <= MaxMints
    /\ IF HasSubscription(active_subscriptions, ROOM_TOKEN_TRADE)
       THEN /\ subs_mints' = subs_mints \o keys
            /\ active_subscriptions' = SetKeys(active_subscriptions, ROOM_TOKEN_TRADE,
                                               subs_mints \o keys)
            /\ Ended("add_token_trade_keys", keys, "TypeError")
       ELSE /\ UNCHANGED <<subs_mints, active_subscriptions>>
            /\ Ended("add_token_trade_keys", keys, "warning")
    /\ UNCHANGED pumpFrame

\* remove_token_trade_keys(keys), lines 212-220: with a subscription, the mints
\* are filtered, the entry's keys updated and unsubscribe_method called with
\* keys as a second positional argument (TypeError); with none, a warning.
RemoveTokenTradeKeys(keys) ==
    /\ IF HasSubscription(active_subscriptions, ROOM_TOKEN_TRADE)
       THEN /\ subs_mints' = Without(subs_mints, keys)
            /\ active_subscriptions' = SetKeys(active_subscriptions, ROOM_TOKEN_TRADE,
                                               Without(subs_mints, keys))
            /\ Ended("remove_token_trade_keys", keys, "TypeError")
       ELSE /\ UNCHANGED <<subs_mints, active_subscriptions>>
            /\ Ended("remove_token_trade_keys", keys, "warning")
    /\ UNCHANGED pumpFrame

\* unsubscribe_token_trade(keys), line 258: unsubscribe_method is called with
\* keys as a second positional argument: TypeError, before line 259.
UnsubscribeTokenTrade(keys) ==
    /\ Ended("unsubscribe_token_trade", keys, "TypeError")
    /\ UNCHANGED <<subs_mints, active_subscriptions>>
    /\ UNCHANGED pumpFrame

\* ------------------------------------------------------------------ spec

Next ==
    \/ Start
    \/ StartConnectDone
    \/ \E f \in Frames : RecvText(f)
    \/ \E raised \in BOOLEAN : CallbackReturns(raised)
    \/ \E why \in {"error_frame", "close_frame", "exception", "closed_locally"} :
          LoopEnds(why)
    \/ RecvClientError
    \/ DiscNotifyDone
    \/ \E t \in Tasks : RcEnter(t)
    \/ \E t \in Tasks : RcSleepDone(t)
    \/ \E t \in Tasks : RcCloseDone(t)
    \/ \E t \in Tasks : RcConnectDone(t)
    \/ \E t \in Tasks : RcReplayResume(t)
    \/ \E t \in Tasks : RcNotifyDone(t)
    \/ CallConnect
    \/ ConnectDone
    \/ CallClose
    \/ CloseWsDone
    \/ \E c \in SubCalls : CallSubscribe(c)
    \/ SubscribeConnectDone
    \/ \E m \in UnsubscribeMethods, sid \in SubscriptionIds : CallUnsubscribe(m, sid)
    \/ CallReconnect

Spec == Init /\ [][Next]_vars

\* One connection and the frames that arrive on it, recorded: start(), the
\* subscribe operations, and the read loop.
NextDispatch ==
    \/ Start
    \/ StartConnectDone
    \/ \E f \in RecordedFrames : RecvFrame(f)
    \/ \E raised \in BOOLEAN : CallbackDone(raised)
    \/ \E why \in {"error_frame", "close_frame", "exception"} : LoopEnds(why)
    \/ \E c \in SubCalls : CallSubscribe(c)
    \/ SubscribeConnectDone

SpecDispatch == Init /\ [][NextDispatch]_vars

\* The subscribe operations with what they returned on record, the read loop,
\* and the reconnect cycles a lost connection starts.
NextSubscribe ==
    \/ Start
    \/ StartConnectDone
    \/ \E f \in Frames : RecvText(f)
    \/ \E raised \in BOOLEAN : CallbackDone(raised)
    \/ RecvClientError
    \/ DiscNotifyDone
    \/ RcEnter("reader")
    \/ RcSleepDone("reader")
    \/ RcCloseDone("reader")
    \/ RcConnectDone("reader")
    \/ RcReplayResume("reader")
    \/ RcNotifyDone("reader")
    \/ \E c \in SubCalls : CallSubscribeRecorded(c)
    \/ SubscribeConnectDoneRecorded

SpecSubscribe == Init /\ [][NextSubscribe]_vars

\* The requests the JSON-RPC adapter builds: subscribe and unsubscribe
\* operations, and the replay of the reconnect cycles a lost connection starts.
NextRequests ==
    \/ Start
    \/ StartConnectDone
    \/ RecvClientError
    \/ DiscNotifyDone
    \/ RcEnter("reader")
    \/ RcSleepDone("reader")
    \/ RcCloseDone("reader")
    \/ RcConnectDone("reader")
    \/ RcReplayResume("reader")
    \/ RcNotifyDone("reader")
    \/ \E c \in SubCalls : CallSubscribe(c)
    \/ SubscribeConnectDone
    \/ \E m \in UnsubscribeMethods, sid \in SubscriptionIds : CallUnsubscribe(m, sid)

SpecRequests == Init /\ [][NextRequests]_vars

\* The Axiom client: start(), subscribe_new_tokens and the reconnect cycles of
\* the main connection.
NextAxiom ==
    \/ AxiomStart
    \/ \E o \in AxiomConnectOutcomes : AxiomStartConnectDone(o)
    \/ AxiomConnectionClosed
    \/ AxiomDiscNotifyDone
    \/ AxiomRcEnter("reader")
    \/ AxiomRcSleepDone("reader")
    \/ AxiomRcCloseDone("reader")
    \/ \E o \in AxiomConnectOutcomes : AxiomRcConnectDone("reader", o)
    \/ AxiomRcReplayResume("reader")
    \/ AxiomRcNotifyDone("reader")
    \/ \E cb \in AxiomCallbacks : AxiomSubscribeNewTokens(cb)
    \/ \E o \in AxiomConnectOutcomes : AxiomSubscribeConnectDone(o)

SpecAxiom == InitAxiom /\ [][NextAxiom]_vars

\* The PumpPortal client's token-trade operations.
NextPump ==
    \/ \E cb \in PumpCallbacks, keys \in KeyLists : SubscribeTokenTrade(cb, keys)
    \/ \E keys \in KeyLists : AddTokenTradeKeys(keys)
    \/ \E keys \in KeyLists : RemoveTokenTradeKeys(keys)
    \/ \E keys \in KeyLists : UnsubscribeTokenTrade(keys)

SpecPump == InitPump /\ [][NextPump]_vars

\* ---------------------------------------------------------------- claims

C3_OneOpenSocket == Cardinality(open) <= 1

\* C7 (backoff schedule).  The delays slept in a cycle are, in order, 5, 10, 20
\* and 40 seconds: none before attempt 1, and before attempt k the k-1 first.
C7_BackoffSchedule ==
    /\ delays = SubSeq(<<5, 10, 20, 40>>, 1, Len(delays))
    /\ attempt >= 1 => Len(delays) = attempt - 1

\* The fifth attempt of a cycle is reached, after four sleeps.
C7_Witness == attempt = max_reconnect_attempts /\ Len(delays) = 4 /\ delays[4] = 40

\* C2 (a connection loss starts the reconnect protocol).  When start() is over
\* after the read loop saw the connection end (an ERROR frame, a CLOSE frame, a
\* transport exception), a _reconnect call was made for that loss and returned.
C2_LossStartsReconnect ==
    (/\ pc["reader"] \in {"done", "raised"}
     /\ loopEnd \in {"error_frame", "close_frame", "client_error"})
        => ret["reader"] # "none"

\* C4 (no concurrent reconnect cycles).  A _reconnect call made while a cycle is
\* in progress returns false in that very step, calls connect() for nothing,
\* opens, closes and sends nothing, and leaves the flag and the cycle's attempt
\* as they are.
C4_NoConcurrentReconnect ==
    [][\A t \in Tasks :
          (pc[t] = "rc_call" /\ is_reconnecting /\ pc'[t] # "rc_call") =>
              /\ pc'[t] = Returned(t)
              /\ ret'[t] = "false"
              /\ is_reconnecting'
              /\ cyc'.connects = cyc.connects
              /\ UNCHANGED <<ws, nsock, open, sent, replayed, request_id, attempt,
                             notifications, delays>>]_vars

\* The caller's _reconnect call was turned away while the reader's cycle runs.
C4_Witness ==
    /\ cyc.owner = "reader" /\ cyc.result = "running" /\ cyc.rejected = 1
    /\ ret["caller"] = "false" /\ pc["caller"] = "idle"
    /\ is_reconnecting

\* C5 (bounded retry).  A cycle calls connect() at most 5 times; when every
\* call failed and the cycle is over, it made 5 calls and returned false; once a
\* connect() succeeded the cycle makes no further attempt and does not return
\* false.
C5_BoundedRetry ==
    /\ cyc.connects <= max_reconnect_attempts
    /\ (cyc.result \in {"true", "false"} /\ cyc.okAt = 0) =>
           (cyc.connects = max_reconnect_attempts /\ cyc.result = "false")
    /\ cyc.okAt # 0 => (cyc.connects = cyc.okAt /\ cyc.result # "false")

\* C6 (scenario C).  With two subscriptions, a connection loss, and a cycle the
\* caller stays out of that is over after three failed connects and a fourth that
\* succeeded: the cycle returned true, the two subscriptions were sent once each, in the order of their first subscribe calls, all in attempt 4, and
\* the Notifier receives one reconnected message, which cites attempt 4.
C6_ScenarioC ==
    (/\ cyc.result \in {"true", "false"} /\ cyc.quiet /\ unsubd = {}
     /\ Len(active_subscriptions) = 2
     /\ cyc.fails = 3 /\ cyc.okAt = 4) =>
        /\ cyc.result = "true"
        /\ Len(replayed) = 2
        /\ \A i \in 1..2 : /\ replayed[i].method = subscribeOrder[i]
                           /\ replayed[i].params = active_subscriptions[i].params
                           /\ replayed[i].attempt = 4
                           /\ replayed[i].ok
        /\ SelectSeq(notifications, LAMBDA n : n.kind = "reconnected")
               = <<[kind |-> "reconnected", attempt |-> 4]>>

\* Scenario C has run to its end.
C6_Witness ==
    /\ cyc.result = "true" /\ cyc.quiet /\ unsubd = {}
    /\ Len(active_subscriptions) = 2
    /\ cyc.fails = 3 /\ cyc.okAt = 4 /\ cyc.connects = 4
    /\ pc["reader"] = "reading" /\ rsock = ws

\* C8 (close() stops a pending reconnect).  Once a close() that was called during
\* the backoff sleep of a reconnect cycle has returned, and until the caller calls
\* connect(), start() or a subscribe operation, the session holds no open
\* connection.
C8_CloseStopsReconnect ==
    (closed.returned /\ closed.inBackoff) => ~(ws # 0 /\ ws \in open)

\* C9 (registry exactness).  What a reconnect replays is what was subscribed
\* and not unsubscribed since: after a cycle that returned true, the caller having
\* started nothing since it began, the topics replayed are those subscribed
\* less those unsubscribed.
C9_RegistryExactness ==
    (cyc.result = "true" /\ cyc.quiet) =>
        {replayed[i].method : i \in DOMAIN replayed} = Range(subscribeOrder) \ unsubd

\* C10 (no dispatch after unsubscribe).  A frame dispatched for a topic that is
\* unsubscribed invokes no callback.
C10_NoDispatchAfterUnsubscribe ==
    [][lastCall' # lastCall =>
          \A i \in DOMAIN lastCall' : lastCall'[i].method \notin unsubd]_vars

\* C11 (dispatch order).  The callbacks run in the order in which their frames
\* arrived, one at a time: every invocation before the last one recorded is over
\* (it returned or raised) before the next begins, and each is made for the topic
\* of its own frame, also when consecutive frames name different topics.
C11_DispatchOrder ==
    /\ \A i \in DOMAIN cbLog :
          /\ cbLog[i].frame \in DOMAIN arrivals
          /\ arrivals[cbLog[i].frame].json
          /\ cbLog[i].method = Replace(arrivals[cbLog[i].frame].method)
          /\ i < Len(cbLog) => /\ cbLog[i].outcome # "running"
                               /\ cbLog[i].frame < cbLog[i + 1].frame
    /\ (cbLog # <<>> /\ cbLog[Len(cbLog)].outcome = "running")
          => pc["reader"] = "callback"

C11_Witness ==
    /\ Len(cbLog) = 3
    /\ cbLog[1].method # cbLog[2].method
    /\ cbLog[2].method # cbLog[3].method
    /\ cbLog[3].outcome = "returned"

\* C12 (read-loop resilience).  A frame that is no JSON, or a callback that
\* raises, leaves the read loop reading the same open connection; and a
\* well-formed frame for a subscribed topic is dispatched to its callback
\* whatever failed before it.
C12_ReadLoopResilience ==
    [][LET \* the handling of a frame fails in this step: a frame that is no
           \* JSON is recorded, or the callback that was running raises
           FrameFails ==
               \/ /\ Len(arrivals') = Len(arrivals) + 1
                  /\ ~arrivals'[Len(arrivals')].json
               \/ /\ cbLog # <<>> /\ cbLog[Len(cbLog)].outcome = "running"
                  /\ cbLog'[Len(cbLog)].outcome = "raised"
           \* a well-formed frame arrives for a topic with a callback
           FrameDispatchable ==
               /\ Len(arrivals') = Len(arrivals) + 1
               /\ arrivals'[Len(arrivals')].json
               /\ RegistryCallback(active_subscriptions,
                                   Replace(arrivals'[Len(arrivals')].method)) # NoCb
       IN  /\ FrameFails => /\ pc'["reader"] = "reading"
                            /\ rsock' = rsock /\ rsock' \in open'
           /\ FrameDispatchable =>
                 /\ Len(cbLog') = Len(cbLog) + 1
                 /\ cbLog'[Len(cbLog')].frame = Len(arrivals')
                 /\ cbLog'[Len(cbLog')].callback =
                       RegistryCallback(active_subscriptions,
                                        Replace(arrivals'[Len(arrivals')].method))]_vars

C12_Witness ==
    /\ Len(arrivals) = 3 /\ ~arrivals[2].json
    /\ Len(cbLog) = 2
    /\ cbLog[1].frame = 1 /\ cbLog[1].outcome = "raised"
    /\ cbLog[2].frame = 3 /\ cbLog[2].outcome = "returned"

\* C13 (start() never raises).  No exception leaves start(): not when the
\* connection is lost and the Notifier raises on the disconnection notice either.
C13_StartNeverRaises == pc["reader"] # "raised"

\* C14 (connect() on a connected session).  A connect() call made while self.ws
\* names an open socket returns at once: it does not go on to open a socket,
\* so no socket is opened and the handle stays what it was.
C14_ConnectIdempotent ==
    [][(pc["caller"] = "idle" /\ ws # 0 /\ ws \in open)
          => pc'["caller"] # "connect"]_vars

\* C15 (a subscribe whose message cannot be sent).  A subscribe operation whose
\* message could not be built or sent returned false and raised nothing; its
\* key stays in the registry with the callback and params of the call; and when
\* a reconnect cycle that began after it is over with a connect() that
\* succeeded, the cycle returned true and its replay sent the key's subscribe
\* message, with those params, on the new connection.
C15_FailedSubscribeReplayed ==
    \A k \in Keys :
        /\ subs[k].result # "raised"
        /\ (subs[k].result = "false" /\ subs[k].why = "send") =>
              /\ RegistryCallback(active_subscriptions, k) = subs[k].callback
              /\ \E i \in DOMAIN active_subscriptions :
                    /\ active_subscriptions[i].method = k
                    /\ active_subscriptions[i].params = subs[k].params
              /\ (cyc.result \in {"true", "false"} /\ cyc.okAt # 0 /\ cyc.quiet) =>
                    /\ cyc.result = "true"
                    /\ \E j \in DOMAIN replayed :
                          /\ replayed[j].method = k
                          /\ replayed[j].params = subs[k].params
                          /\ replayed[j].ok
                          /\ replayed[j].attempt = cyc.okAt
                    /\ \E j \in DOMAIN sent :
                          /\ sent[j].method = k
                          /\ sent[j].params = subs[k].params

\* A subscribe failed on a lost connection, and the cycle that followed sent it.
C15_Witness ==
    \E k \in Keys :
        /\ subs[k].result = "false" /\ subs[k].why = "send"
        /\ cyc.result = "true" /\ cyc.quiet
        /\ \E j \in DOMAIN sent : sent[j].method = k /\ sent[j].params = subs[k].params
        /\ ws \in open

\* C16 (subscribe without a connection).  While no connect() has ever succeeded,
\* every subscribe operation that is over found no connection and saw its
\* connect() fail, so it recorded nothing: the registry is empty, no callback is
\* registered and nothing was sent.
C16_FailedConnectRecordsNothing ==
    (nsock = 0 /\ pc["caller"] = "idle") =>
        /\ active_subscriptions = <<>>
        /\ \A k \in Keys : callbacks[k] = NoCb
        /\ sent = <<>>

\* C17 (a cycle that gives up).  When a cycle is over and each of its 5
\* connect() calls failed, it returned false and the Notifier received a
\* notification of the failure.
C17_FailureNotified ==
    (cyc.result \in {"true", "false"} /\ cyc.fails = max_reconnect_attempts) =>
        /\ cyc.result = "false"
        /\ \E i \in DOMAIN notifications : notifications[i].kind = "failed"

\* C19 (last write wins).  In every state the registry holds one entry per key,
\* and the entry of a key holds the callback and params of the last subscribe
\* call for it; a frame is dispatched to that callback and to no other; and the
\* replay of a cycle that began after the call sends one message for the key,
\* with the params of the last call.
C19_LastWriteWins ==
    [][/\ \A i, j \in DOMAIN active_subscriptions' :
             active_subscriptions'[i].method = active_subscriptions'[j].method => i = j
       /\ \A k \in Keys : subs'[k].result # "none" =>
             /\ \E i \in DOMAIN active_subscriptions' :
                   /\ active_subscriptions'[i].method = k
                   /\ active_subscriptions'[i].callback = subs'[k].callback
                   /\ active_subscriptions'[i].params = subs'[k].params
             /\ (cyc'.result \in {"true", "false"} /\ cyc'.okAt # 0 /\ cyc'.quiet) =>
                   /\ Cardinality({j \in DOMAIN replayed' :
                                      /\ replayed'[j].method = k
                                      /\ replayed'[j].attempt = cyc'.okAt}) = 1
                   /\ Cardinality({j \in DOMAIN sent' : sent'[j].method = k}) = 1
                   /\ \A j \in DOMAIN sent' :
                         sent'[j].method = k => sent'[j].params = subs'[k].params
       /\ (pc["reader"] = "reading" /\ pc'["reader"] = "callback") =>
             /\ Len(lastCall') = 1
             /\ lastCall'[1].callback = subs[lastCall'[1].method].callback]_vars

\* A key was subscribed again with another callback and other params, a frame
\* was dispatched, and a cycle replayed the key.
C19_Witness ==
    \E k \in Keys :
        /\ subs[k].replaced
        /\ lastCall # <<>> /\ lastCall[1].callback = subs[k].callback
        /\ cyc.result = "true" /\ cyc.quiet
        /\ Len(sent) = 1 /\ sent[1].params = subs[k].params

\* C18 (credential rejection is not retried).  Once a connect() of a cycle
\* failed because the Authenticator had no valid credentials or the handshake
\* was rejected with an authentication status, the cycle is over: it returned
\* false and made no connect() call after that one.
C18_AuthRejectionEndsCycle ==
    cyc.deniedAt # 0 => (cyc.result = "false" /\ cyc.connects = cyc.deniedAt)

\* C20 (scenario D).  add_token_trade_keys called while the registry has no
\* token-trade subscription ends with a warning and changes nothing: no message
\* is sent, no registry entry is created, and the tracked mints stay as they were.
C20_AddKeysWithoutSubscription ==
    [][(/\ lastOp'.n # lastOp.n
        /\ lastOp'.op = "add_token_trade_keys"
        /\ \A i \in DOMAIN active_subscriptions :
              active_subscriptions[i].method # ROOM_TOKEN_TRADE)
       => /\ lastOp'.outcome = "warning"
          /\ sent' = sent
          /\ active_subscriptions' = active_subscriptions
          /\ subs_mints' = subs_mints
          /\ callbacks' = callbacks]_vars

\* add_token_trade_keys with two mints ended with a warning on a client with no
\* subscription.
C20_Witness ==
    /\ lastOp.op = "add_token_trade_keys" /\ lastOp.outcome = "warning"
    /\ lastOp.keys = <<"M1", "M2">>
    /\ active_subscriptions = <<>> /\ subs_mints = <<>> /\ sent = <<>>

\* C21 (extending a subscription's keys).  add_token_trade_keys(keys) on a
\* client with a token-trade subscription whose stored mints are each there once
\* leaves a stored list that holds every mint stored before and every new one,
\* each once, and the registry entry carries that list.
C21_AddKeysUnion ==
    [][(/\ lastOp'.n # lastOp.n
        /\ lastOp'.op = "add_token_trade_keys"
        /\ \E i \in DOMAIN active_subscriptions :
              active_subscriptions[i].method = ROOM_TOKEN_TRADE
        /\ \A i, j \in DOMAIN subs_mints : subs_mints[i] = subs_mints[j] => i = j)
       => /\ Range(subs_mints') = Range(subs_mints) \cup Range(lastOp'.keys)
          /\ \A i, j \in DOMAIN subs_mints' : subs_mints'[i] = subs_mints'[j] => i = j
          /\ \E i \in DOMAIN active_subscriptions' :
                /\ active_subscriptions'[i].method = ROOM_TOKEN_TRADE
                /\ active_subscriptions'[i].keys = subs_mints']_vars

\* C22 (request ids).  The counter starts at 0 and every step leaves it or adds
\* one; a message that reaches the connection in a step carries the new value
\* of the counter, which is one more than the old, so the first id is 1; the ids
\* of the messages on a connection are strictly increasing, and a reconnect does
\* not set the counter back: the ids on the new connection are above every id
\* handed out before.
C22_RequestIds ==
    [][/\ request_id' \in {request_id, request_id + 1}
       /\ (sent' # sent /\ sent' # <<>>) =>
             /\ request_id' = request_id + 1
             /\ sent'[Len(sent')].id = request_id'
             /\ request_id' >= 1
       /\ \A i, j \in DOMAIN sent' : i < j => sent'[i].id < sent'[j].id
       /\ \A i \in DOMAIN sent' : sent'[i].id \in 1..request_id']_vars

\* A subscribe and an unsubscribe took ids 1 and 2, the connection was lost, and
\* the replay on the new connection carries id 3.
C22_Witness ==
    /\ cyc.result = "true"
    /\ unsubd # {}
    /\ Len(sent) = 1 /\ sent[1].id = 3
    /\ ws \in open

\* ------------------------------------------------ frames of the JSON-RPC adapter

\* The payloads a frame's "params" member carries.
Payloads == {"update1", "update2"}

\* The JSON objects the server can send, by the members _message_handler looks
\* at (lines 144 and 152): any of result, id, method and params may be present;
\* a method member names a topic's notification.
WireFrames ==
    {[json |-> TRUE, fields |-> F,
      method |-> IF "method" \in F THEN <<k[1], "Notification">> ELSE <<>>,
      params |-> IF "params" \in F THEN p ELSE "absent"] :
        F \in SUBSET {"result", "id", "method", "params"},
        k \in Keys, p \in Payloads}

\* A TEXT frame arrives (lines 423-438); the frame that arrived last is
\* recorded with the registry it met and the invocations it makes.
RecvWire(f) ==
    /\ Receive(f)
    /\ arrivals' = <<[frame |-> f, reg |-> active_subscriptions]>>
    /\ cbLog' = [i \in DOMAIN lastCall' |->
                    [frame |-> 1,
                     method |-> lastCall'[i].method,
                     callback |-> lastCall'[i].callback,
                     outcome |-> "running"]]

\* The read loop of one connection, the adapter's subscribe operations, and the
\* frames the server sends.
NextFrames ==
    \/ Start
    \/ StartConnectDone
    \/ \E f \in WireFrames : RecvWire(f)
    \/ \E raised \in BOOLEAN : CallbackDone(raised)
    \/ \E c \in SubCalls : CallSubscribe(c)
    \/ SubscribeConnectDone

SpecFrames == Init /\ [][NextFrames]_vars

\* C23: in the JSON-RPC adapter a frame that carries both result and id invokes
\* no callback, whatever the registry holds and whatever other members (method,
\* params) the frame carries: when the frame that arrived last is such a frame,
\* no invocation was made for it and the read loop is not at a callback.
C23_AckInvokesNothing ==
    (arrivals # <<>> /\ {"result", "id"} \subseteq arrivals[1].frame.fields)
    => /\ lastCall = <<>>
       /\ cbLog = <<>>
       /\ pc["reader"] # "callback"

\* An acknowledgement that also carries the method and the params of an
\* accountNotification arrived when subscribe_account had registered a callback
\* for the topic, and nothing was invoked.
C23_Witness ==
    /\ arrivals # <<>>
    /\ arrivals[1].frame.fields = {"result", "id", "method", "params"}
    /\ arrivals[1].frame.method = <<"account", "Notification">>
    /\ \E i \in DOMAIN arrivals[1].reg :
          /\ arrivals[1].reg[i].method = AccountSubscribe
          /\ arrivals[1].reg[i].callback # NoCb
    /\ lastCall = <<>>
    /\ pc["reader"] = "reading"

\* C24: in the JSON-RPC adapter a notification frame (method and params, and no
\* result with id) whose method is X + "Notification" invokes exactly once the
\* callback the registry holds under X + "Subscribe", with the frame's params
\* as argument, and no other callback; when the registry holds no callback
\* under that topic, nothing is invoked.
C24_NotificationDispatch ==
    \A k \in Keys :
        (/\ arrivals # <<>>
         /\ arrivals[1].frame.json
         /\ {"method", "params"} \subseteq arrivals[1].frame.fields
         /\ ~({"result", "id"} \subseteq arrivals[1].frame.fields)
         /\ arrivals[1].frame.method = <<k[1], "Notification">>)
        => LET reg == arrivals[1].reg
               registered == {reg[i].callback : i \in
                                 {j \in DOMAIN reg : /\ reg[j].method = <<k[1], "Subscribe">>
                                                     /\ reg[j].callback # NoCb}}
           IN  IF registered = {}
               THEN lastCall = <<>> /\ cbLog = <<>>
               ELSE /\ Len(lastCall) = 1
                    /\ lastCall[1].method = <<k[1], "Subscribe">>
                    /\ lastCall[1].callback \in registered
                    /\ lastCall[1].arg = arrivals[1].frame.params
                    /\ Len(cbLog) = 1
                    /\ cbLog[1].callback = lastCall[1].callback

\* With cb2 registered for accountSubscribe and cb1 for slotSubscribe, an
\* accountNotification carrying "update2" arrived: cb2 was invoked once with
\* "update2" and has returned.
C24_Witness ==
    /\ arrivals # <<>>
    /\ arrivals[1].frame.fields = {"method", "params"}
    /\ arrivals[1].frame.method = <<"account", "Notification">>
    /\ arrivals[1].frame.params = "update2"
    /\ Len(arrivals[1].reg) = 2
    /\ Len(lastCall) = 1
    /\ lastCall[1].callback = "cb2"
    /\ lastCall[1].arg = "update2"
    /\ Len(cbLog) = 1 /\ cbLog[1].outcome = "returned"

\* --------------------------------------- frames of the Axiom client

\* The JSON objects the Axiom server sends, by what _message_handler and
\* _route_message look at: the "room" member, which may be absent, and the rest
\* of the object; and a frame that is not JSON.
AxiomFrames ==
    {[json |-> TRUE, fields |-> F \cup {"content"},
      room |-> IF "room" \in F THEN r ELSE "absent", content |-> c] :
        F \in SUBSET {"room"}, r \in AxiomRooms \cup {"b-unknown"},
        c \in {"pair1", "pair2"}}
    \cup {[json |-> FALSE, fields |-> {}, room |-> "absent", content |-> "garbage"]}

\* data.get("room", "") (line 1052).
GetRoom(data) == IF "room" \in data.fields THEN data.room ELSE ""

\* A router that hands the callback the message without its "room" member.
RouteContent(cbs, room, data) ==
    IF room \in DOMAIN cbs /\ cbs[room] # NoCb
    THEN <<[method |-> room, callback |-> cbs[room],
            arg |-> [data EXCEPT !.fields = @ \ {"room"}, !.room = "absent"]]>>
    ELSE <<>>

\* _route_message (lines 1129-1152): the invocations a message makes.  A room
\* with the callback under its key is invoked with the message; a token room
\* ("b-" prefix) without a callback and an unknown room are logged.
RouteMessage(cbs, room, data) ==
    IF room \in DOMAIN cbs /\ cbs[room] # NoCb
    THEN <<[method |-> room, callback |-> cbs[room], arg |-> data]>>
    ELSE <<>>

\* A message arrives in the read loop of _message_handler (lines 1048-1066): it is
\* parsed and routed, and the callback is awaited; the message that arrived
\* last is recorded with the callbacks it met.
AxiomRecv(f) ==
    /\ pc["reader"] = "reading"
    /\ rsock \in open
    /\ lastCall' = IF f.json THEN RouteMessage(callbacks, GetRoom(f), f) ELSE <<>>
    /\ pc' = [pc EXCEPT !["reader"] = IF lastCall' = <<>> THEN "reading" ELSE "callback"]
    /\ arrivals' = <<[frame |-> f, cbs |-> callbacks]>>
    /\ cbLog' = [i \in DOMAIN lastCall' |->
                    [frame |-> 1,
                     method |-> lastCall'[i].method,
                     callback |-> lastCall'[i].callback,
                     outcome |-> "running"]]
    /\ UNCHANGED <<ws, nsock, open, registryVars, is_reconnecting, rsock, cur, attempt,
                   idx, iterLen, ret, sent, replayed, notifications, delays, nops, cyc,
                   request_id, notifier_raises, loopEnd, subscribeOrder, unsubd,
                   subs, closed, pumpVars>>

\* The callback returns or raises; what it raises is logged (line 1062) and the
\* loop goes on.
AxiomCallbackDone(raised) ==
    /\ pc["reader"] = "callback"
    /\ pc' = [pc EXCEPT !["reader"] = "reading"]
    /\ cbLog' = [cbLog EXCEPT ![Len(cbLog)].outcome =
                                  IF raised THEN "raised" ELSE "returned"]
    /\ UNCHANGED <<ws, nsock, open, registryVars, is_reconnecting, rsock, cur, attempt,
                   idx, iterLen, ret, sent, replayed, notifications, delays, nops, cyc,
                   request_id, notifier_raises, loopEnd, subscribeOrder, unsubd,
                   subs, closed, pumpVars, lastCall, arrivals>>

\* subscribe_sol_price(callback) (lines 642-658): the callback is registered and
\* the join message sent; no registry entry is written.
AxiomSolPriceBody(callback, base, w, op) ==
    /\ callbacks' = [callbacks EXCEPT ![ROOM_SOL_PRICE] = callback]
    /\ UNCHANGED active_subscriptions
    /\ \E ok \in SendOutcomes(w, op) :
           sent' = IF ok THEN Append(base, JoinMessage(ROOM_SOL_PRICE)) ELSE base

\* subscribe_sol_price(callback) is called: connect() first if there is no handle.
AxiomSubscribeSolPrice(callback) ==
    /\ pc["caller"] = "idle"
    /\ nops < MaxOps
    /\ nops' = nops + 1
    /\ cyc' = Disturb(cyc)
    /\ IF ws = 0
       THEN /\ cur' = [room |-> ROOM_SOL_PRICE, callback |-> callback]
            /\ pc' = [pc EXCEPT !["caller"] = "sol_connect"]
            /\ UNCHANGED <<registryVars, sent>>
       ELSE /\ AxiomSolPriceBody(callback, sent, ws, open)
            /\ UNCHANGED <<cur, pc>>
    /\ UNCHANGED <<ws, nsock, open, is_reconnecting, rsock, attempt, idx, iterLen, ret,
                   replayed, notifications, delays, baseVars>>

\* connect() called by subscribe_sol_price is over: on failure it returns False.
AxiomSolPriceConnectDone(o) ==
    /\ pc["caller"] = "sol_connect"
    /\ IF AxiomConnected(o)
       THEN /\ nsock < MaxSock
            /\ nsock' = nsock + 1
            /\ open' = open \cup {nsock + 1}
            /\ ws' = nsock + 1
            /\ AxiomSolPriceBody(cur.callback, <<>>, nsock + 1, open \cup {nsock + 1})
       ELSE UNCHANGED <<ws, nsock, open, sent, registryVars>>
    /\ pc' = [pc EXCEPT !["caller"] = "idle"]
    /\ cur' = NoCall
    /\ UNCHANGED <<is_reconnecting, rsock, attempt, idx, iterLen, ret, replayed,
                   notifications, delays, nops, cyc, baseVars>>

\* The Axiom client's read loop on one connection, its subscribe operations,
\* and the messages the server sends.
NextAxiomRoute ==
    \/ AxiomStart
    \/ \E o \in AxiomConnectOutcomes : AxiomStartConnectDone(o)
    \/ \E f \in AxiomFrames : AxiomRecv(f)
    \/ \E raised \in BOOLEAN : AxiomCallbackDone(raised)
    \/ \E cb \in AxiomCallbacks : AxiomSubscribeNewTokens(cb)
    \/ \E o \in AxiomConnectOutcomes : AxiomSubscribeConnectDone(o)
    \/ \E cb \in AxiomCallbacks : AxiomSubscribeSolPrice(cb)
    \/ \E o \in AxiomConnectOutcomes : AxiomSolPriceConnectDone(o)

SpecAxiomRoute == InitAxiom /\ [][NextAxiomRoute]_vars

\* C25: with a callback subscribed to room "new_pairs", a message whose room is
\* "new_pairs" invokes that callback exactly once, with the whole parsed message
\* as argument, and invokes no other callback.
C25_NewPairsDispatch ==
    (/\ arrivals # <<>>
     /\ arrivals[1].frame.json
     /\ "room" \in arrivals[1].frame.fields
     /\ arrivals[1].frame.room = ROOM_NEW_PAIRS
     /\ arrivals[1].cbs[ROOM_NEW_PAIRS] # NoCb)
    => /\ Len(lastCall) = 1
       /\ lastCall[1].callback = arrivals[1].cbs[ROOM_NEW_PAIRS]
       /\ lastCall[1].arg = arrivals[1].frame
       /\ Len(cbLog) = 1
       /\ cbLog[1].callback = lastCall[1].callback

\* subscribe_new_tokens(cb2) sent its join message, subscribe_sol_price(cb1) had
\* registered cb1, and the new_pairs message "pair2" arrived: cb2 was invoked
\* once with the message and has returned.
C25_Witness ==
    /\ arrivals # <<>>
    /\ arrivals[1].frame.room = ROOM_NEW_PAIRS
    /\ arrivals[1].frame.content = "pair2"
    /\ arrivals[1].cbs[ROOM_NEW_PAIRS] = "cb2"
    /\ arrivals[1].cbs[ROOM_SOL_PRICE] = "cb1"
    /\ \E i \in DOMAIN sent : sent[i] = JoinMessage(ROOM_NEW_PAIRS)
    /\ Len(lastCall) = 1
    /\ lastCall[1].callback = "cb2"
    /\ lastCall[1].arg = arrivals[1].frame
    /\ Len(cbLog) = 1 /\ cbLog[1].outcome = "returned"

\* ------------------------------------------- unsubscribe_method, recorded

\* A session on which subscribe_account(cb1, "Addr1") has returned True: it
\* connected (line 497), registered the callback and sent request 1.
InitSubscribed ==
    \E c \in {a \in AccountCalls : a.callback = "cb1"} :
        /\ ws = 1 /\ nsock = 1 /\ open = {1}
        /\ callbacks = [k \in Keys |-> IF k = c.method THEN c.callback ELSE NoCb]
        /\ active_subscriptions = Register(<<>>, c)
        /\ is_reconnecting = FALSE
        /\ request_id = NextId(0)
        /\ notifier_raises \in BOOLEAN
        /\ pc = [t \in Tasks |-> "idle"]
        /\ rsock = 0 /\ cur = NoCall
        /\ attempt = 0 /\ idx = 0 /\ iterLen = 0
        /\ ret = [t \in Tasks |-> "none"]
        /\ sent = <<BuildSubscribeMessage(c.method, c.params, NextId(0))>>
        /\ replayed = <<>> /\ lastCall = <<>> /\ notifications = <<>>
        /\ arrivals = <<>> /\ cbLog = <<>>
        /\ delays = <<>>
        /\ nops = 0
        /\ cyc = Disturb(NoCyc)
        /\ loopEnd = "none"
        /\ subscribeOrder = <<c.method>>
        /\ unsubd = {}
        /\ subs = [k \in Keys |-> NoSub]
        /\ closed = NotClosed
        /\ subs_mints = <<>> /\ subs_accounts = <<>> /\ lastOp = NoOp
        /\ ws_pulse = 0 /\ psock = 0

\* The read loop, the adapter's subscribe operations and unsubscribe_method, on
\* a fresh session and on one that holds a subscription.
NextUnsubscribe ==
    \/ Start
    \/ StartConnectDone
    \/ \E why \in {"error_frame", "close_frame", "exception"} : LoopEnds(why)
    \/ \E c \in SubCalls : CallSubscribe(c)
    \/ SubscribeConnectDone
    \/ \E m \in UnsubscribeMethods, sid \in SubscriptionIds :
          CallUnsubscribeRecorded(m, sid)

SpecUnsubscribe == (Init \/ InitSubscribed) /\ [][NextUnsubscribe]_vars

\* C26: unsubscribe_method(k) raises nothing and, whether or not k still has a
\* callback (a second call in a row included), builds its message, taking the
\* next request id, and attempts the send; it returns True exactly when the
\* connection was open and the message went out, else False with nothing sent.
C26_UnsubscribeIdempotent ==
    [][(lastOp'.n # lastOp.n /\ lastOp'.op = "unsubscribe_method")
       => /\ request_id' = request_id + 1
          /\ lastOp'.outcome \in {"true", "false"}
          /\ lastOp'.outcome = "true" <=> (ws # 0 /\ ws \in open)
          /\ IF ws # 0 /\ ws \in open
             THEN /\ Len(sent') = Len(sent) + 1
                  /\ sent'[Len(sent')].method = lastOp'.keys[1]
                  /\ sent'[Len(sent')].id = request_id + 1
             ELSE sent' = sent
          /\ \A k \in Keys : callbacks'[k] \in {callbacks[k], NoCb}
          /\ lastOp'.keys[1] \in Keys => callbacks'[lastOp'.keys[1]] = NoCb]_vars

\* On the session that holds the accountSubscribe subscription,
\* unsubscribe_method("accountSubscribe") was called twice in a row: the second
\* call found no callback, sent its message with request id 3 and returned True.
C26_Witness ==
    /\ nops = 2
    /\ lastOp.op = "unsubscribe_method" /\ lastOp.n = 2
    /\ lastOp.keys = <<AccountSubscribe>>
    /\ lastOp.outcome = "true"
    /\ callbacks[AccountSubscribe] = NoCb
    /\ Len(sent) = 3
    /\ sent[2].method = AccountSubscribe /\ sent[2].params = <<42>> /\ sent[2].id = 2
    /\ sent[3].method = AccountSubscribe /\ sent[3].params = <<42>> /\ sent[3].id = 3

\* ------------------------- PumpPortalWSClient: subscribe and unsubscribe

ROOM_NEW_TOKEN == "subscribeNewToken"
ROOM_MIGRATION == "subscribeMigration"
ROOM_ACCOUNT_TRADE == "subscribeAccountTrade"
PumpRooms == {ROOM_NEW_TOKEN, ROOM_MIGRATION, ROOM_ACCOUNT_TRADE, ROOM_TOKEN_TRADE}

\* f"un{room}" (lines 258 and 290).
Un(room) ==
    CASE room = ROOM_NEW_TOKEN -> "unsubscribeNewToken"
      [] room = ROOM_MIGRATION -> "unsubscribeMigration"
      [] room = ROOM_ACCOUNT_TRADE -> "unsubscribeAccountTrade"
      [] room = ROOM_TOKEN_TRADE -> "unsubscribeTokenTrade"

\* The keys arguments of the account-trade and of the token-trade operations,
\* the default [] among them, and the callback of the subscribe operations.
AccountKeyLists == {<<>>, <<"A1", "A2">>}
MintKeyLists == {<<>>, <<"M1", "M2">>}
PumpCallback == "cb1"

\* The operations without keys, and the room each names.
KeylessRooms == {ROOM_NEW_TOKEN, ROOM_MIGRATION}
SubscribeOp(room) ==
    IF room = ROOM_NEW_TOKEN THEN "subscribe_new_token" ELSE "subscribe_migration"
UnsubscribeOp(room) ==
    IF room = ROOM_NEW_TOKEN THEN "unsubscribe_new_token" ELSE "unsubscribe_migration"

\* PumpPortalWSClient defines neither _build_subscribe_message nor
\* _build_unsubscribe_message; the inherited ones (ws_client.py:327-370) have
\* the body `...` and return None, which send_json serialises as null.
NullMessage == [json |-> "null"]
InheritedBuildMessage(method) == NullMessage

\* A PumpPortal session before any operation, with no connection or with the
\* connection connect() opened.
InitPumpOps ==
    /\ \/ ws = 0 /\ nsock = 0 /\ open = {}
       \/ ws = 1 /\ nsock = 1 /\ open = {1}
    /\ callbacks = [r \in PumpRooms |-> NoCb]
    /\ active_subscriptions = <<>>
    /\ is_reconnecting = FALSE
    /\ request_id = 0
    /\ notifier_raises = FALSE
    /\ pc = [t \in Tasks |-> "idle"]
    /\ rsock = 0 /\ cur = NoCall
    /\ attempt = 0 /\ idx = 0 /\ iterLen = 0
    /\ ret = [t \in Tasks |-> "none"]
    /\ sent = <<>> /\ replayed = <<>> /\ lastCall = <<>> /\ notifications = <<>>
    /\ arrivals = <<>> /\ cbLog = <<>>
    /\ delays = <<>>
    /\ nops = 0
    /\ cyc = NoCyc
    /\ loopEnd = "none"
    /\ subscribeOrder = <<>>
    /\ unsubd = {}
    /\ subs = [k \in Keys |-> NoSub]
    /\ closed = NotClosed
    /\ subs_mints = <<>> /\ subs_accounts = <<>> /\ lastOp = NoOp
    /\ ws_pulse = 0 /\ psock = 0

\* The variables the PumpPortal operations leave alone.
pumpOpsFrame == <<is_reconnecting, request_id, notifier_raises, rsock, attempt, idx,
                  iterLen, ret, replayed, lastCall, logVars, notifications, delays,
                  cyc, loopEnd, subscribeOrder, unsubd, subs, closed, pulseVars>>

\* subscribe_method(room, callback) past connect() (ws_client.py:501-514): the
\* callback is registered, the message built and sent on handle w.
PumpSubscribeBody(room, callback, base, w, op) ==
    /\ callbacks' = [callbacks EXCEPT ![room] = callback]
    /\ \E ok \in SendOutcomes(w, op) :
           sent' = IF ok THEN Append(base, InheritedBuildMessage(room)) ELSE base

\* subscribe_new_token(callback) and subscribe_migration(callback) (lines
\* 163-178): the registry entry is written, then subscribe_method connects
\* first if there is no handle; the operation returns None.
PumpSubscribe(room, callback) ==
    /\ pc["caller"] = "idle"
    /\ nops < MaxOps
    /\ nops' = nops + 1
    /\ active_subscriptions' = Put(active_subscriptions,
                                   [method |-> room, callback |-> callback])
    /\ IF ws = 0
       THEN /\ cur' = [method |-> room, callback |-> callback, params |-> <<>>]
            /\ pc' = [pc EXCEPT !["caller"] = "sub_connect"]
            /\ UNCHANGED <<callbacks, sent, lastOp>>
       ELSE /\ PumpSubscribeBody(room, callback, sent, ws, open)
            /\ Ended(SubscribeOp(room), <<>>, "None")
            /\ UNCHANGED <<cur, pc>>
    /\ UNCHANGED <<ws, nsock, open, subs_mints, subs_accounts>>
    /\ UNCHANGED pumpOpsFrame

\* connect() called by subscribe_method is over (ws_client.py:497-499): on
\* failure subscribe_method returns False with nothing registered.
PumpSubscribeConnectDone ==
    /\ pc["caller"] = "sub_connect"
    /\ \/ /\ nsock < MaxSock
          /\ nsock' = nsock + 1
          /\ open' = open \cup {nsock + 1}
          /\ ws' = nsock + 1
          /\ PumpSubscribeBody(cur.method, cur.callback, <<>>, nsock + 1,
                               open \cup {nsock + 1})
       \/ UNCHANGED <<ws, nsock, open, sent, callbacks>>
    /\ Ended(SubscribeOp(cur.method), <<>>, "None")
    /\ pc' = [pc EXCEPT !["caller"] = "idle"]
    /\ cur' = NoCall
    /\ UNCHANGED <<active_subscriptions, subs_mints, subs_accounts, nops>>
    /\ UNCHANGED pumpOpsFrame

\* subscribe_account_trade(callback, keys), lines 183-188: the accounts are
\* added, the registry entry written, and subscribe_method is called with keys
\* as a third positional argument, which its signature does not take: TypeError.
SubscribeAccountTrade(callback, keys) ==
    /\ pc["caller"] = "idle"
    /\ Len(subs_accounts) + Len(keys) <= MaxMints
    /\ subs_accounts' = subs_accounts \o keys
    /\ active_subscriptions' = Put(active_subscriptions,
                                   [method |-> ROOM_ACCOUNT_TRADE, callback |-> callback,
                                    keys |-> subs_accounts \o keys])
    /\ Ended("subscribe_account_trade", keys, "TypeError")
    /\ UNCHANGED <<ws, nsock, open, callbacks, sent, pc, cur, subs_mints, nops>>
    /\ UNCHANGED pumpOpsFrame

\* unsubscribe_new_token() and unsubscribe_migration() (lines 321 and 350):
\* unsubscribe_method is called with the room's subscribe name; it pops the
\* callback, builds the message and sends it (ws_client.py:527-540).
PumpUnsubscribe(room) ==
    /\ pc["caller"] = "idle"
    /\ nops < MaxOps
    /\ nops' = nops + 1
    /\ callbacks' = Pop(callbacks, room)
    /\ \E ok \in SendOutcomes(ws, open) :
          /\ sent' = IF ok THEN Append(sent, InheritedBuildMessage(room)) ELSE sent
          /\ Ended(UnsubscribeOp(room), <<>>, IF ok THEN "true" ELSE "false")
    /\ UNCHANGED <<ws, nsock, open, active_subscriptions, pc, cur, subs_mints,
                   subs_accounts>>
    /\ UNCHANGED pumpOpsFrame

\* unsubscribe_account_trade(keys), line 290: unsubscribe_method is called with
\* keys as a second positional argument: TypeError, before line 291.
UnsubscribeAccountTrade(keys) ==
    /\ pc["caller"] = "idle"
    /\ Ended("unsubscribe_account_trade", keys, "TypeError")
    /\ UNCHANGED <<ws, nsock, open, callbacks, active_subscriptions, sent, pc, cur,
                   subs_mints, subs_accounts, nops>>
    /\ UNCHANGED pumpOpsFrame

\* The subscribe and unsubscribe operations of the PumpPortal client.
NextPumpOps ==
    \/ \E r \in KeylessRooms : PumpSubscribe(r, PumpCallback)
    \/ PumpSubscribeConnectDone
    \/ \E keys \in MintKeyLists : SubscribeTokenTrade(PumpCallback, keys)
    \/ \E keys \in AccountKeyLists : SubscribeAccountTrade(PumpCallback, keys)
    \/ \E r \in KeylessRooms : PumpUnsubscribe(r)
    \/ \E keys \in MintKeyLists : UnsubscribeTokenTrade(keys)
    \/ \E keys \in AccountKeyLists : UnsubscribeAccountTrade(keys)

SpecPumpOps == InitPumpOps /\ [][NextPumpOps]_vars

\* The room a subscribe or an unsubscribe operation is about.
RoomOf(op) ==
    CASE op \in {"subscribe_new_token", "unsubscribe_new_token"} -> ROOM_NEW_TOKEN
      [] op \in {"subscribe_migration", "unsubscribe_migration"} -> ROOM_MIGRATION
      [] op \in {"subscribe_token_trade", "unsubscribe_token_trade"} -> ROOM_TOKEN_TRADE
      [] op \in {"subscribe_account_trade", "unsubscribe_account_trade"} ->
             ROOM_ACCOUNT_TRADE

\* C27: in the topic adapter each subscribe operation on an open connection
\* sends exactly one message {method: <subscribe name>, keys: <the keys given>}
\* and registers the callback under the subscribe name.
C27_SubscribeSends ==
    [][(/\ lastOp'.n # lastOp.n
        /\ lastOp'.op \in {"subscribe_new_token", "subscribe_migration",
                           "subscribe_token_trade", "subscribe_account_trade"}
        /\ ws # 0 /\ ws \in open /\ ws' = ws)
       => LET room == RoomOf(lastOp'.op)
          IN  /\ Len(sent') = Len(sent) + 1
              /\ sent'[Len(sent')] = [method |-> room, keys |-> lastOp'.keys]
              /\ callbacks'[room] # NoCb
              /\ callbacks'[room] = RegistryCallback(active_subscriptions', room)]_vars

\* C28: in the topic adapter each unsubscribe operation on an open connection
\* sends a message whose method is the "un"-prefixed subscribe name, never the
\* subscribe name itself, and an unsubscribe of the whole topic (no keys)
\* leaves no callback under the subscribe name.
C28_UnsubscribeSends ==
    [][(/\ lastOp'.n # lastOp.n
        /\ lastOp'.op \in {"unsubscribe_new_token", "unsubscribe_migration",
                           "unsubscribe_token_trade", "unsubscribe_account_trade"}
        /\ ws # 0 /\ ws \in open)
       => LET room == RoomOf(lastOp'.op)
          IN  /\ Len(sent') = Len(sent) + 1
              /\ sent'[Len(sent')] # NullMessage
              /\ sent'[Len(sent')].method = Un(room)
              /\ lastOp'.keys = <<>> => callbacks'[room] = NoCb]_vars

\* ----------------------------------- BaseClient._fetch, BaseAioHttpClient._fetch

\* Response bodies: a text is <<kind, content>>; "json" texts parse to their
\* content, the others (an HTML error page, an empty body) do not parse.
Bodies == {<<"json", "doc1">>, <<"json", "doc2">>, <<"html", "page">>, <<"empty", "">>}
Statuses == {200, 201, 400, 404, 500, 503}

\* response.json(): the parsed body, or JSONDecodeError.
IsJson(body) == body[1] = "json"
ParseJson(body) == body[2]

\* How the underlying request ends: the exception the transport raises, or a
\* response with its status and body.  httpx: ProxyError, TimeoutException,
\* ConnectError, or any other exception; aiohttp: ClientProxyConnectionError,
\* ServerTimeoutError, ClientConnectionError, or any other exception.
TransportFailures == {"proxy", "timeout", "connection", "other"}
Requests ==
    {[kind |-> k, status |-> 0, body |-> <<"empty", "">>] : k \in TransportFailures}
    \cup {[kind |-> "response", status |-> s, body |-> b] : s \in Statuses, b \in Bodies}

\* What _fetch does: the value it returns or the exception that leaves it, with
\* the status code the exception carries (0: None).
Returns(value) == [raised |-> "none", status_code |-> 0, value |-> value]
Raises(exc, code) == [raised |-> exc, status_code |-> code, value |-> "none"]

\* response.raise_for_status(): raises for a status of 400 and above.
IsErrorStatus(status) == status >= 400

\* BaseClient._fetch (client.py:155-187).  In the handler of HTTPStatusError the
\* response body is parsed for the exception (lines 175-177, hasattr being true
\* of every httpx.Response): a body that is not JSON raises JSONDecodeError
\* inside the handler, which no clause of the same try catches.
BaseClientFetch(r) ==
    CASE r.kind = "proxy" -> Raises("ProxyError", 0)
      [] r.kind = "timeout" -> Raises("HTTPError", 0)
      [] r.kind \in {"connection", "other"} -> Raises("HTTPError", 0)
      [] r.kind = "response" /\ IsErrorStatus(r.status) ->
             IF IsJson(r.body) THEN Raises("HTTPError", r.status)
             ELSE Raises("JSONDecodeError", 0)
      [] r.kind = "response" /\ ~IsErrorStatus(r.status) ->
             IF IsJson(r.body) THEN Returns(ParseJson(r.body))
             ELSE Raises("HTTPError", 0)                        \* line 185

\* BaseAioHttpClient._fetch (aiohttp_client.py:197-238).  The handler of
\* ClientResponseError reads only the exception's status and message.
AioHttpFetch(r) ==
    CASE r.kind = "proxy" -> Raises("ProxyError", 0)
      [] r.kind = "timeout" -> Raises("HTTPError", 0)
      [] r.kind \in {"connection", "other"} -> Raises("HTTPError", 0)
      [] r.kind = "response" /\ IsErrorStatus(r.status) -> Raises("HTTPError", r.status)
      [] r.kind = "response" /\ ~IsErrorStatus(r.status) ->
             IF IsJson(r.body) THEN Returns(ParseJson(r.body))
             ELSE Raises("HTTPError", 0)

\* _fetch is called on a BaseClient and the request ends as r.
CallBaseClientFetch(r) ==
    /\ Ended("BaseClient._fetch", <<r>>, BaseClientFetch(r))
    /\ UNCHANGED <<ws, nsock, open, registryVars, is_reconnecting, request_id,
                   notifier_raises, pc, rsock, cur, attempt, idx, iterLen, ret, sent,
                   replayed, lastCall, logVars, notifications, delays, nops, cyc,
                   loopEnd, subscribeOrder, unsubd, subs, closed, subs_mints,
                   subs_accounts, pulseVars>>

\* _fetch is called on a BaseAioHttpClient and the request ends as r.
CallAioHttpFetch(r) ==
    /\ Ended("BaseAioHttpClient._fetch", <<r>>, AioHttpFetch(r))
    /\ UNCHANGED <<ws, nsock, open, registryVars, is_reconnecting, request_id,
                   notifier_raises, pc, rsock, cur, attempt, idx, iterLen, ret, sent,
                   replayed, lastCall, logVars, notifications, delays, nops, cyc,
                   loopEnd, subscribeOrder, unsubd, subs, closed, subs_mints,
                   subs_accounts, pulseVars>>

NextFetch ==
    \/ \E r \in Requests : CallBaseClientFetch(r)
    \/ \E r \in Requests : CallAioHttpFetch(r)

SpecFetch == Init /\ [][NextFetch]_vars

\* C29: every failure of the request made by BaseClient._fetch or
\* BaseAioHttpClient._fetch leaves _fetch as a library exception (ProxyError for
\* a proxy failure; HTTPError with the status code for an error status;
\* HTTPError for a timeout, a connection error or anything else), no other
\* exception leaves _fetch, and on success the parsed JSON body is returned.
C29_FetchErrorMapping ==
    lastOp.op \in {"BaseClient._fetch", "BaseAioHttpClient._fetch"}
    => LET r == lastOp.keys[1]
           res == lastOp.outcome
       IN  /\ res.raised \in {"none", "ProxyError", "HTTPError"}
           /\ r.kind = "proxy" => res.raised = "ProxyError"
           /\ r.kind \in {"timeout", "connection", "other"} => res.raised = "HTTPError"
           /\ (r.kind = "response" /\ r.status >= 400)
              => res.raised = "HTTPError" /\ res.status_code = r.status
           /\ (r.kind = "response" /\ r.status < 400 /\ r.body[1] = "json")
              => res.raised = "none" /\ res.value = r.body[2]

\* C30: a Notifier failure does not change the outcome of a reconnect: when the
\* Notifier raises while the successful reconnection is reported (line 635),
\* _reconnect returns true on that attempt and keeps the connection it opened;
\* it starts no further attempt (no backoff sleep, no connect, no second replay).
C30_NotifierFailure ==
    [][\A t \in Tasks :
          (pc[t] = "rc_notify" /\ pc'[t] # "rc_notify" /\ notifier_raises)
          => /\ ret'[t] = "true"
             /\ pc'[t] # "rc_sleep"
             /\ attempt' = 0
             /\ ~is_reconnecting'
             /\ ws' = ws /\ ws \in open']_vars

\* --------------------------- AxiomWebSocketClient: the Pulse connection

\* The key of the Pulse callback and of the Pulse registry entry (lines 755-758).
PulseKey == "pulse"
PulseMessages == {"pulse1"}

\* The tasks of an Axiom client: start() with the main read loop, the caller of
\* the public operations, and _pulse_message_handler.
AxiomTasks == Tasks \cup {"pulse"}

InitAxiomPulse ==
    /\ ws = 0 /\ nsock = 0 /\ open = {}
    /\ callbacks = [r \in AxiomRooms \cup {PulseKey} |-> NoCb]
    /\ active_subscriptions = <<>>
    /\ is_reconnecting = FALSE
    /\ request_id = 0
    /\ notifier_raises = FALSE
    /\ pc = [t \in AxiomTasks |-> "idle"]
    /\ rsock = 0 /\ cur = NoCall
    /\ attempt = 0 /\ idx = 0 /\ iterLen = 0
    /\ ret = [t \in AxiomTasks |-> "none"]
    /\ sent = <<>> /\ replayed = <<>> /\ lastCall = <<>> /\ notifications = <<>>
    /\ arrivals = <<>> /\ cbLog = <<>>
    /\ delays = <<>>
    /\ nops = 0
    /\ cyc = NoCyc
    /\ loopEnd = "none"
    /\ subscribeOrder = <<>>
    /\ unsubd = {}
    /\ subs = [k \in Keys |-> NoSub]
    /\ closed = NotClosed
    /\ subs_mints = <<>> /\ subs_accounts = <<>> /\ lastOp = NoOp
    /\ ws_pulse = 0 /\ psock = 0

\* The variables nothing on the Pulse connection touches.
pulseFrame == <<ws, rsock, sent, idx, iterLen, request_id, notifier_raises, logVars,
                loopEnd, subscribeOrder, unsubd, subs, closed, subs_mints,
                subs_accounts, lastOp>>

\* subscribe_pulse past websockets.connect (lines 746-768): the configuration is
\* sent on the new Pulse connection, the callback registered and the registry
\* entry written.
PulseSubscribeBody(callback) ==
    /\ callbacks' = [callbacks EXCEPT ![PulseKey] = callback]
    /\ active_subscriptions' =
          LET e == [room |-> PulseKey, type |-> "pulse", callback |-> callback]
          IN  IF \E i \in DOMAIN active_subscriptions :
                    active_subscriptions[i].room = PulseKey
              THEN [i \in DOMAIN active_subscriptions |->
                       IF active_subscriptions[i].room = PulseKey THEN e
                       ELSE active_subscriptions[i]]
              ELSE Append(active_subscriptions, e)

\* pulse_sub["callback"] of line 391: the callback of the registry entry of a room.
RegistryRoomCallback(reg, room) ==
    IF \E i \in DOMAIN reg : reg[i].room = room
    THEN (CHOOSE e \in {reg[i] : i \in DOMAIN reg} : e.room = room).callback
    ELSE NoCb

\* subscribe_pulse(callback) is called (lines 722-743): websockets.connect is
\* awaited, whatever self.ws_pulse holds.
AxiomSubscribePulse(callback) ==
    /\ pc["caller"] = "idle"
    /\ nops < MaxOps
    /\ nops' = nops + 1
    /\ cyc' = Disturb(cyc)
    /\ cur' = [room |-> PulseKey, callback |-> callback]
    /\ pc' = [pc EXCEPT !["caller"] = "pulse_connect"]
    /\ UNCHANGED <<nsock, open, registryVars, is_reconnecting, attempt, ret, replayed,
                   lastCall, notifications, delays, pulseVars>>
    /\ UNCHANGED pulseFrame

\* The connect of subscribe_pulse is over: self.ws_pulse is the new connection
\* and True is returned, or False with nothing changed (lines 723-733, 770-772).
AxiomPulseConnectDone(o) ==
    /\ pc["caller"] = "pulse_connect"
    /\ IF AxiomConnected(o)
       THEN /\ nsock < MaxSock
            /\ nsock' = nsock + 1
            /\ open' = open \cup {nsock + 1}
            /\ ws_pulse' = nsock + 1
            /\ PulseSubscribeBody(cur.callback)
       ELSE UNCHANGED <<nsock, open, ws_pulse, registryVars>>
    /\ pc' = [pc EXCEPT !["caller"] = "idle"]
    /\ cur' = NoCall
    /\ UNCHANGED <<is_reconnecting, attempt, ret, replayed, lastCall, notifications,
                   delays, nops, cyc, psock>>
    /\ UNCHANGED pulseFrame

\* _pulse_message_handler is entered (lines 856-864): without a Pulse connection
\* it returns, else it iterates over self.ws_pulse.
PulseHandlerBegins(t) ==
    IF ws_pulse = 0
    THEN /\ pc' = [pc EXCEPT ![t] = "done"]
         /\ psock' = psock
    ELSE /\ pc' = [pc EXCEPT ![t] = "reading"]
         /\ psock' = ws_pulse

\* The task of _pulse_message_handler starts.
PulseStart ==
    /\ pc["pulse"] = "idle"
    /\ PulseHandlerBegins("pulse")
    /\ UNCHANGED <<nsock, open, registryVars, is_reconnecting, cur, attempt, ret,
                   replayed, lastCall, notifications, delays, nops, cyc, ws_pulse>>
    /\ UNCHANGED pulseFrame

\* A Pulse message arrives (lines 864-876): it is decoded and the callback under
\* "pulse", if there is one, is awaited.
PulseRecv(m) ==
    /\ pc["pulse"] = "reading"
    /\ psock \in open
    /\ lastCall' = IF callbacks[PulseKey] # NoCb
                   THEN <<[method |-> PulseKey, callback |-> callbacks[PulseKey],
                           arg |-> m]>>
                   ELSE <<>>
    /\ pc' = [pc EXCEPT !["pulse"] = IF lastCall' = <<>> THEN "reading" ELSE "callback"]
    /\ UNCHANGED <<nsock, open, registryVars, is_reconnecting, cur, attempt, ret,
                   replayed, notifications, delays, nops, cyc, pulseVars>>
    /\ UNCHANGED pulseFrame

\* The Pulse callback returns or raises; what it raises is logged (line 884) and
\* the loop goes on.
PulseCallbackDone(raised) ==
    /\ pc["pulse"] = "callback"
    /\ pc' = [pc EXCEPT !["pulse"] = "reading"]
    /\ lastCall' = <<>>
    /\ UNCHANGED <<nsock, open, registryVars, is_reconnecting, cur, attempt, ret,
                   replayed, notifications, delays, nops, cyc, pulseVars>>
    /\ UNCHANGED pulseFrame

\* The iteration of the Pulse read loop raises ConnectionClosed (line 889); the
\* disconnection notice (line 895) is sent next.
PulseConnectionClosed ==
    /\ pc["pulse"] = "reading"
    /\ psock \in open
    /\ open' = open \ {psock}
    /\ pc' = [pc EXCEPT !["pulse"] = "disc_notify"]
    /\ ret' = [ret EXCEPT !["pulse"] = "none"]
    /\ UNCHANGED <<nsock, registryVars, is_reconnecting, cur, attempt, replayed,
                   lastCall, notifications, delays, nops, cyc, pulseVars>>
    /\ UNCHANGED pulseFrame

\* _send_telegram_notification of line 895 is over; _reconnect("pulse") is
\* called (line 904).
PulseDiscNotifyDone ==
    /\ pc["pulse"] = "disc_notify"
    /\ pc' = [pc EXCEPT !["pulse"] = "rc_call"]
    /\ notifications' = Append(notifications, [kind |-> "disconnected", attempt |-> 0])
    /\ UNCHANGED <<nsock, open, registryVars, is_reconnecting, cur, attempt, ret,
                   replayed, lastCall, delays, nops, cyc, pulseVars>>
    /\ UNCHANGED pulseFrame

\* Lines 379-392: close the stale Pulse handle if there is one (and wait for
\* that), else call subscribe_pulse with the stored entry and wait for its
\* connect; c is the cycle's history so far.  The entry "pulse" is there:
\* subscribe_pulse wrote it when it set self.ws_pulse, and nothing removes it.
PulseTryClose(c) ==
    IF ws_pulse # 0
    THEN /\ open' = open \ {ws_pulse}
         /\ pc' = [pc EXCEPT !["pulse"] = "rc_close"]
         /\ cyc' = c
    ELSE /\ open' = open
         /\ pc' = [pc EXCEPT !["pulse"] = "rc_connect"]
         /\ cyc' = [c EXCEPT !.connects = @ + 1]

\* _reconnect("pulse") is entered (lines 355-392, attempt 1, which does not
\* sleep): the flag of line 355 is the one _reconnect("main") tests and sets.
PulseRcEnter ==
    /\ pc["pulse"] = "rc_call"
    /\ IF AlreadyReconnecting
       THEN /\ pc' = [pc EXCEPT !["pulse"] = Returned("pulse")]
            /\ ret' = [ret EXCEPT !["pulse"] = "false"]
            /\ cyc' = [cyc EXCEPT !.rejected = @ + 1]
            /\ UNCHANGED <<open, is_reconnecting, attempt, replayed, notifications,
                           delays>>
       ELSE /\ is_reconnecting' = TRUE
            /\ attempt' = 1
            /\ delays' = <<>> /\ replayed' = <<>> /\ notifications' = <<>>
            /\ ret' = [ret EXCEPT !["pulse"] = "none"]
            /\ PulseTryClose(NewCyc("pulse"))
    /\ UNCHANGED <<nsock, registryVars, cur, lastCall, nops, pulseVars>>
    /\ UNCHANGED pulseFrame

\* asyncio.sleep(delay) of line 372 is over, in the cycle of the Pulse handler.
PulseRcSleepDone ==
    /\ pc["pulse"] = "rc_sleep"
    /\ PulseTryClose(cyc)
    /\ UNCHANGED <<nsock, registryVars, is_reconnecting, cur, attempt, ret, replayed,
                   lastCall, notifications, delays, nops, pulseVars>>
    /\ UNCHANGED pulseFrame

\* self.ws_pulse.close() of line 380 is over: self.ws_pulse = None (line 381),
\* then subscribe_pulse is called.
PulseRcCloseDone ==
    /\ pc["pulse"] = "rc_close"
    /\ ws_pulse' = 0
    /\ pc' = [pc EXCEPT !["pulse"] = "rc_connect"]
    /\ cyc' = [cyc EXCEPT !.connects = @ + 1]
    /\ UNCHANGED <<nsock, open, registryVars, is_reconnecting, cur, attempt, ret,
                   replayed, lastCall, notifications, delays, nops, psock>>
    /\ UNCHANGED pulseFrame

\* subscribe_pulse of line 390 is over.  On success nothing is replayed (line
\* 400) and the Notifier is called (line 419); on failure: continue.
PulseRcConnectDone(o) ==
    /\ pc["pulse"] = "rc_connect"
    /\ IF AxiomConnected(o)
       THEN /\ nsock < MaxSock
            /\ nsock' = nsock + 1
            /\ open' = open \cup {nsock + 1}
            /\ ws_pulse' = nsock + 1
            /\ PulseSubscribeBody(RegistryRoomCallback(active_subscriptions, PulseKey))
            /\ cyc' = [cyc EXCEPT !.okAt = IF @ = 0 THEN attempt ELSE @]
            /\ pc' = [pc EXCEPT !["pulse"] = "rc_notify"]
            /\ UNCHANGED <<is_reconnecting, attempt, ret, delays>>
       ELSE /\ FailAttempt("pulse", [cyc EXCEPT !.fails = @ + 1])
            /\ UNCHANGED <<nsock, open, ws_pulse, registryVars>>
    /\ UNCHANGED <<cur, replayed, lastCall, notifications, nops, psock>>
    /\ UNCHANGED pulseFrame

\* _send_telegram_notification of line 419 is over: return True (finally: the
\* flag is cleared), and _pulse_message_handler is entered again (line 909).
PulseRcNotifyDone ==
    /\ pc["pulse"] = "rc_notify"
    /\ notifications' = Append(notifications, ReconnectedNote(attempt))
    /\ is_reconnecting' = FALSE
    /\ attempt' = 0
    /\ ret' = [ret EXCEPT !["pulse"] = "true"]
    /\ cyc' = [cyc EXCEPT !.result = "true"]
    /\ PulseHandlerBegins("pulse")
    /\ UNCHANGED <<nsock, open, registryVars, cur, replayed, lastCall, delays, nops,
                   ws_pulse>>
    /\ UNCHANGED pulseFrame

\* An Axiom client with both connections: start() and _pulse_message_handler
\* run as two tasks, the caller subscribes, and each read loop starts the
\* reconnect cycle of its own connection.
NextAxiomPulse ==
    \/ AxiomStart
    \/ \E o \in AxiomConnectOutcomes : AxiomStartConnectDone(o)
    \/ AxiomConnectionClosed
    \/ AxiomDiscNotifyDone
    \/ AxiomRcEnter("reader")
    \/ AxiomRcSleepDone("reader")
    \/ AxiomRcCloseDone("reader")
    \/ \E o \in AxiomConnectOutcomes : AxiomRcConnectDone("reader", o)
    \/ AxiomRcReplayResume("reader")
    \/ AxiomRcNotifyDone("reader")
    \/ \E cb \in AxiomCallbacks : AxiomSubscribeNewTokens(cb)
    \/ \E o \in AxiomConnectOutcomes : AxiomSubscribeConnectDone(o)
    \/ \E cb \in AxiomCallbacks : AxiomSubscribePulse(cb)
    \/ \E o \in AxiomConnectOutcomes : AxiomPulseConnectDone(o)
    \/ PulseStart
    \/ \E m \in PulseMessages : PulseRecv(m)
    \/ \E raised \in BOOLEAN : PulseCallbackDone(raised)
    \/ PulseConnectionClosed
    \/ PulseDiscNotifyDone
    \/ PulseRcEnter
    \/ PulseRcSleepDone
    \/ PulseRcCloseDone
    \/ \E o \in AxiomConnectOutcomes : PulseRcConnectDone(o)
    \/ PulseRcNotifyDone

SpecAxiomPulse == InitAxiomPulse /\ [][NextAxiomPulse]_vars

\* C31: when the main and the Pulse connection of one Axiom client are lost at
\* overlapping times, neither handler gives up because the reconnect cycle of
\* the other connection is in progress: a handler that calls _reconnect while
\* the other handler's cycle runs, no connect of which has failed, does not end
\* in that step.
C31_BothHandlersReconnect ==
    [][\A t \in {"reader", "pulse"} :
          (/\ pc[t] = "rc_call" /\ pc'[t] # "rc_call"
           /\ is_reconnecting /\ cyc.owner \in {"reader", "pulse"} \ {t}
           /\ cyc.fails = 0)
          => pc'[t] # "done"]_vars

\* ----------------------- PumpPortalWSClient: the key lists of the registry

\* What the replay of _reconnect hands the message builder for a registry entry
\* with keys (ws_client.py:616-621): every member but the callback.
ReplayKwargs(e) == [keys |-> e.keys]

\* The token-trade operations and the account-trade operations, which keep a
\* list of tracked keys beside the registry entry.
NextPumpKeys ==
    \/ \E cb \in PumpCallbacks, keys \in KeyLists : SubscribeTokenTrade(cb, keys)
    \/ \E keys \in KeyLists : AddTokenTradeKeys(keys)
    \/ \E keys \in KeyLists : RemoveTokenTradeKeys(keys)
    \/ \E keys \in KeyLists : UnsubscribeTokenTrade(keys)
    \/ \E keys \in AccountKeyLists : SubscribeAccountTrade(PumpCallback, keys)
    \/ \E keys \in AccountKeyLists : UnsubscribeAccountTrade(keys)

SpecPumpKeys == InitPump /\ [][NextPumpKeys]_vars

C33_HandleNullWhenDisconnected ==
    (\/ closed.returned
     \/ pc["reader"] = "done" /\ loopEnd \in {"error_frame", "close_frame"})
    => (ws = 0 \/ ws \in open)

\* ------------------------------------- the reconnect cycle that gives up

\* start() is called again after it returned: as at the first call, connect()
\* if there is no handle, else the read loop begins on self.ws.
StartAgain ==
    /\ pc["reader"] = "done"
    /\ nops < MaxOps
    /\ nops' = nops + 1
    /\ cyc' = Disturb(cyc)
    /\ closed' = NotClosed
    /\ IF ws = 0
       THEN /\ pc' = [pc EXCEPT !["reader"] = "start_connect"]
            /\ rsock' = rsock
       ELSE /\ pc' = [pc EXCEPT !["reader"] = "reading"]
            /\ rsock' = ws
    /\ UNCHANGED <<ws, nsock, open, registryVars, is_reconnecting, request_id,
                   notifier_raises, cur, attempt, idx, iterLen, ret, sent, replayed,
                   notifications, delays, subscribeOrder, subs, pumpVars, unsubd,
                   readerVars>>

\* The steps the task of start() takes by itself once what it awaits (the
\* Notifier, the backoff sleep, close() of the stale handle, connect(), a send)
\* is over.
ReaderStep ==
    \/ StartConnectDone
    \/ DiscNotifyDone
    \/ RcEnter("reader")
    \/ RcSleepDone("reader")
    \/ RcCloseDone("reader")
    \/ RcConnectDone("reader")
    \/ RcReplayResume("reader")
    \/ RcNotifyDone("reader")

\* start(), the loss of the connection and the reconnect cycle it begins, and a
\* caller that calls connect() or start() again.
NextGiveUp ==
    \/ Start
    \/ StartAgain
    \/ RecvClientError
    \/ ReaderStep
    \/ CallConnect
    \/ ConnectDone

\* The event loop runs a task that is ready, and each awaited operation ends:
\* asyncio.sleep after its delay, connect() within its timeout or with an error.
SpecGiveUp ==
    /\ Init \/ InitSubscribed
    /\ [][NextGiveUp]_vars
    /\ WF_vars(ReaderStep)

\* Every connect() of the read loop's cycle failed, the cycle is over, and the
\* caller has started no operation since it began.
GaveUp ==
    /\ cyc.owner = "reader" /\ cyc.result = "false"
    /\ cyc.okAt = 0
    /\ cyc.quiet

\* C34: when the connection drops and every connect attempt of the reconnect
\* cycle that follows fails, start() eventually returns; it has then made
\* max_reconnect_attempts connect() calls, the handle is null, and no connect is
\* attempted until the caller calls connect() or start(), which then attempts a
\* fresh connect.
C34_FinalFailureEndsStart ==
    /\ [](GaveUp =>
            /\ pc["reader"] = "done" /\ ret["reader"] = "false"
            /\ ws = 0 /\ ~is_reconnecting /\ attempt = 0
            /\ cyc.connects = max_reconnect_attempts
            /\ cyc.fails = max_reconnect_attempts
            /\ pc["caller"] = "idle")
    /\ [][GaveUp =>
            /\ UNCHANGED <<ws, nsock, open>>
            /\ pc'["reader"] \in {"done", "start_connect"}
            /\ pc'["caller"] \in {"idle", "connect"}
            /\ GaveUp' \/ nops' = nops + 1]_vars
    /\ (pc["reader"] = "rc_call") ~> (pc["reader"] \in {"done", "reading"})

\* Five connects failed and start() returned; the caller called start() again,
\* which found no handle and is in connect().
C34_Witness ==
    /\ cyc.owner = "reader" /\ cyc.result = "false" /\ cyc.okAt = 0
    /\ cyc.fails = max_reconnect_attempts
    /\ nops = 1
    /\ pc["reader"] = "start_connect" /\ pc["caller"] = "idle"
    /\ ws = 0

\* ------------------------------------------ the read loop after a reconnect

\* A frame arrives and is recorded, alone, with the socket it arrived on and
\* the invocation it makes.
RecvOn(f) ==
    /\ Receive(f)
    /\ arrivals' = <<[frame |-> f, sock |-> rsock]>>
    /\ cbLog' = [i \in DOMAIN lastCall' |->
                    [frame |-> 1,
                     method |-> lastCall'[i].method,
                     callback |-> lastCall'[i].callback,
                     outcome |-> "running"]]

\* The read loop with the last frame on record, the reconnect cycles a lost
\* connection starts, and subscribe_slot, on a fresh session and on one that
\* holds an account subscription.
NextResume ==
    \/ Start
    \/ StartConnectDone
    \/ \E f \in RecordedFrames : RecvOn(f)
    \/ \E raised \in BOOLEAN : CallbackDone(raised)
    \/ RecvClientError
    \/ DiscNotifyDone
    \/ RcEnter("reader")
    \/ RcSleepDone("reader")
    \/ RcCloseDone("reader")
    \/ RcConnectDone("reader")
    \/ RcReplayResume("reader")
    \/ RcNotifyDone("reader")
    \/ \E c \in SlotCalls : CallSubscribe(c)
    \/ SubscribeConnectDone

SpecResume == (Init \/ InitSubscribed) /\ [][NextResume]_vars

\* C35: when _reconnect returns true inside start()'s read loop, the loop
\* resumes on the connection self.ws names (the one the cycle opened when the
\* caller stayed out of it); start() has not returned for as long as that holds;
\* and every frame that then arrives is dispatched: it makes the invocations
\* _message_handler computes for it.
C35_ResumeAfterReconnect ==
    /\ [](ret["reader"] = "true" =>
            /\ pc["reader"] \in {"reading", "callback"}
            /\ rsock # 0
            /\ loopEnd = "client_error")
    /\ [][/\ (ret["reader"] # "true" /\ ret'["reader"] = "true") =>
                /\ pc'["reader"] = "reading"
                /\ rsock' = ws' /\ rsock' # rsock
                /\ cyc.quiet => rsock' \in open'
          /\ (ret["reader"] = "true" /\ arrivals' # arrivals) =>
                LET a == arrivals'[Len(arrivals')]
                    calls == MessageHandler(active_subscriptions, a.frame)
                IN  /\ a.sock = rsock
                    /\ lastCall' = calls
                    /\ Len(cbLog') = Len(calls)
                    /\ pc'["reader"] = IF calls = <<>> THEN "reading" ELSE "callback"
                    /\ ret'["reader"] = "true"]_vars

\* The connection dropped, the cycle's first connect() succeeded and replayed the
\* account subscription; a notification then arrived on the new connection and
\* its callback ran and returned, with start() still in the read loop.
C35_Witness ==
    /\ ret["reader"] = "true" /\ cyc.owner = "reader" /\ cyc.quiet
    /\ pc["reader"] = "reading"
    /\ ws = 2 /\ rsock = 2
    /\ Len(arrivals) = 1 /\ arrivals[1].sock = 2
    /\ Len(cbLog) = 1 /\ cbLog[1].callback = "cb1" /\ cbLog[1].outcome = "returned"

\* ------------------------------------------------ a replay send that fails

\* The reconnect cycles a lost connection starts, and a caller that subscribes
\* and closes while they run, on a fresh session and on one that holds an
\* account subscription.
NextReplay ==
    \/ Start
    \/ StartConnectDone
    \/ LoopEnds("closed_locally")
    \/ RecvClientError
    \/ DiscNotifyDone
    \/ RcEnter("reader")
    \/ RcSleepDone("reader")
    \/ RcCloseDone("reader")
    \/ RcConnectDone("reader")
    \/ RcReplayResume("reader")
    \/ RcNotifyDone("reader")
    \/ \E c \in SubCalls : CallSubscribe(c)
    \/ SubscribeConnectDone
    \/ CallClose
    \/ CloseWsDone

SpecReplay == (Init \/ InitSubscribed) /\ [][NextReplay]_vars

\* The replay sends of the attempt in progress.
ThisAttempt == SelectSeq(replayed, LAMBDA r : r.attempt = attempt)

\* C36: a replay send that fails does not abort the replay: the cycle stays in
\* the replay of the same attempt; when the replay is over a send was attempted
\* for every entry the registry held, in order; and the _reconnect call then
\* returns true.
C36_ReplayFailureDoesNotAbort ==
    /\ [](pc["reader"] = "rc_notify" =>
            /\ Len(ThisAttempt) = iterLen
            /\ iterLen <= Len(active_subscriptions)
            /\ \A i \in 1..iterLen :
                  ThisAttempt[i].method = active_subscriptions[i].method)
    /\ [][/\ (/\ Len(replayed') = Len(replayed) + 1
              /\ ~replayed'[Len(replayed')].ok) =>
                /\ pc'["reader"] = "rc_replay"
                /\ is_reconnecting' /\ attempt' = attempt
          /\ (pc["reader"] = "rc_notify" /\ pc'["reader"] # "rc_notify") =>
                /\ ret'["reader"] = "true" /\ cyc'.result = "true"
                /\ ~is_reconnecting']_vars

\* The registry holds the account and the slot subscription; the first connect()
\* of the cycle succeeded and the account subscription was sent; the caller
\* closed the connection, so the send of the slot subscription failed; and
\* _reconnect returned true.
C36_Witness ==
    /\ cyc.owner = "reader" /\ cyc.result = "true" /\ ret["reader"] = "true"
    /\ Len(active_subscriptions) = 2
    /\ Len(replayed) = 2
    /\ replayed[1].ok /\ replayed[1].method = AccountSubscribe
    /\ ~replayed[2].ok /\ replayed[2].method = SlotSubscribe
    /\ Len(sent) = 1

\* The suspension points of _reconnect (lines 597, 602, 606, 620, 635).
InCycle == {"rc_sleep", "rc_close", "rc_connect", "rc_replay", "rc_notify"}

\* C37: while the read loop's reconnect cycle is in progress the read loop is
\* inside _reconnect and dispatches no frame; and when, after a cycle the caller
\* stayed out of returned true, a frame is dispatched to a callback, it arrived
\* on the new connection and the subscribe message of every registry entry has
\* already been sent on that connection, in registry order.
C37_ReplayBeforeDispatch ==
    /\ [](is_reconnecting => pc["reader"] \in InCycle)
    /\ [][(pc["reader"] = "reading" /\ pc'["reader"] = "callback") =>
            /\ ~is_reconnecting
            /\ (ret["reader"] = "true" /\ cyc.quiet) =>
                  /\ rsock = ws /\ rsock \in open
                  /\ Len(replayed) = Len(active_subscriptions)
                  /\ Len(sent) = Len(active_subscriptions)
                  /\ \A i \in DOMAIN active_subscriptions :
                        /\ sent[i].method = active_subscriptions[i].method
                        /\ sent[i].params = active_subscriptions[i].params]_vars

\* After a reconnect that replayed the account subscription, a notification
\* arrived on the new connection and its callback is running.
C37_Witness ==
    /\ ret["reader"] = "true" /\ cyc.owner = "reader" /\ cyc.quiet
    /\ pc["reader"] = "callback"
    /\ Len(arrivals) = 1 /\ arrivals[1].sock = ws /\ ws = 2
    /\ Len(replayed) = 1 /\ replayed[1].ok
    /\ Len(sent) = 1 /\ sent[1].method = AccountSubscribe

\* ------------------------------- PumpPortalWSClient: the frames it receives

\* A field the frame does not carry.
Absent == "absent"

\* Inbound frames of the PumpPortal stream: whether the JSON object carries
\* "message" and "name", and the values of "mint", "traderPublicKey" and
\* "txType" where it carries them.
AllPumpFrames ==
    [json : {TRUE}, message : BOOLEAN, name : BOOLEAN,
     mint : {Absent, "M1", "M2"}, trader : {Absent, "A1"},
     txType : {Absent, "migrate", "buy"}]

\* The fields a frame carries, in the order _message_handler looks at them.
FieldsOf(f) ==
    SelectSeq(<<"message", "name", "mint", "trader", "txType">>,
              LAMBDA k : CASE k = "message" -> f.message
                           [] k = "name" -> f.name
                           [] k = "mint" -> f.mint # Absent
                           [] k = "trader" -> f.trader # Absent
                           [] k = "txType" -> f.txType # Absent)

\* The frames the server sends here: those with at most one field, and those
\* that carry, with a field, every field the handler looks at after it; and a
\* frame that is not JSON.
PumpFrames ==
    {f \in AllPumpFrames :
        \/ Len(FieldsOf(f)) <= 1
        \/ /\ FieldsOf(f)[Len(FieldsOf(f))] = "txType"
           /\ f.txType = "migrate" /\ f.mint # "M2"
           /\ \A i \in 1..(Len(FieldsOf(f)) - 1) :
                 <<FieldsOf(f)[i], FieldsOf(f)[i + 1]>> \in
                    {<<"message", "name">>, <<"name", "mint">>, <<"mint", "trader">>,
                     <<"trader", "txType">>}}
PumpMalformedFrame ==
    [json |-> FALSE, message |-> FALSE, name |-> FALSE, mint |-> Absent,
     trader |-> Absent, txType |-> Absent]

\* A handler that looks at txType before it looks at the other fields.
MigrateFirst(f, mints, accounts) ==
    IF f.txType = "migrate" THEN ROOM_MIGRATION
    ELSE IF f.message THEN "info"
    ELSE IF f.name THEN ROOM_NEW_TOKEN
    ELSE IF f.mint # Absent /\ f.mint \in Range(mints) THEN ROOM_TOKEN_TRADE
    ELSE IF f.trader # Absent /\ f.trader \in Range(accounts) THEN ROOM_ACCOUNT_TRADE
    ELSE "dropped"

\* The if/elif chain of _message_handler (lines 143-161): the room the frame is
\* routed to, "info" for a frame that is logged (line 144), "dropped" for one
\* that matches nothing (line 161).
PumpTopic(f, mints, accounts) ==
    IF f.message THEN "info"
    ELSE IF f.name THEN ROOM_NEW_TOKEN
    ELSE IF f.mint # Absent /\ f.mint \in Range(mints) THEN ROOM_TOKEN_TRADE
    ELSE IF f.trader # Absent /\ f.trader \in Range(accounts) THEN ROOM_ACCOUNT_TRADE
    ELSE IF f.txType = "migrate" THEN ROOM_MIGRATION
    ELSE "dropped"

\* _route_message (lines 127-138): the callback registered for the room is
\* invoked with the frame; with none registered nothing happens.
PumpRouteMessage(room, cbs, f) ==
    IF room \in PumpRooms /\ cbs[room] # NoCb
    THEN <<[method |-> room, callback |-> cbs[room], arg |-> f]>>
    ELSE <<>>

\* PumpPortalWSClient._message_handler: the callback invocations a frame makes;
\* json.loads raises on a frame that is not JSON.
PumpMessageHandler(cbs, mints, accounts, f) ==
    IF ~f.json THEN <<>>
    ELSE PumpRouteMessage(PumpTopic(f, mints, accounts), cbs, f)

\* A TEXT frame arrives (ws_client.py:423-438): _message_handler runs and the
\* callback it invokes is awaited.  The frame is recorded, alone.
PumpRecv(f) ==
    /\ pc["reader"] = "reading"
    /\ rsock \in open
    /\ LET calls == PumpMessageHandler(callbacks, subs_mints, subs_accounts, f)
       IN  /\ lastCall' = calls
           /\ pc' = [pc EXCEPT !["reader"] = IF f.json THEN AwaitCallback(calls)
                                             ELSE AfterFrame(TRUE)]
           /\ cbLog' = [i \in DOMAIN calls |->
                           [frame |-> 1, method |-> calls[i].method,
                            callback |-> calls[i].callback, outcome |-> "running"]]
    /\ arrivals' = <<[frame |-> f]>>
    /\ UNCHANGED <<ws, nsock, open, registryVars, is_reconnecting, request_id,
                   notifier_raises, rsock, attempt, idx, iterLen, ret, sent,
                   replayed, notifications, delays, cyc, callerVars, loopEnd>>

\* The rooms of the operations with keys.
KeyedRooms == {ROOM_TOKEN_TRADE, ROOM_ACCOUNT_TRADE}

\* The caller calls the inherited subscribe_method(room, callback) itself, on a
\* session that has a handle (ws_client.py:500-514): the callback is registered
\* and the message built and sent.
SubscribeMethod(room, callback) ==
    /\ pc["caller"] = "idle"
    /\ ws # 0
    /\ nops < MaxOps
    /\ nops' = nops + 1
    /\ PumpSubscribeBody(room, callback, sent, ws, open)
    /\ Ended("subscribe_method", <<>>, SubscribeResult(Len(sent') > Len(sent)))
    /\ UNCHANGED <<ws, nsock, open, active_subscriptions, subs_mints, subs_accounts,
                   cur, pc>>
    /\ UNCHANGED pumpOpsFrame

\* A PumpPortal session before any operation, with the connection connect()
\* opened.
InitPumpConnected == InitPumpOps /\ ws = 1

\* The read loop of the PumpPortal client and the operations that register
\* callbacks and track mints and accounts.
NextPumpDispatch ==
    \/ Start
    \/ \E f \in PumpFrames \cup {PumpMalformedFrame} : PumpRecv(f)
    \/ \E raised \in BOOLEAN : CallbackDone(raised)
    \/ \E r \in KeylessRooms : PumpSubscribe(r, PumpCallback)
    \/ \E r \in KeyedRooms : SubscribeMethod(r, PumpCallback)
    \/ SubscribeTokenTrade(PumpCallback, <<"M1">>)
    \/ SubscribeAccountTrade(PumpCallback, <<"A1", "A2">>)

SpecPumpDispatch == InitPumpConnected /\ [][NextPumpDispatch]_vars

\* The step in which the read loop takes a frame.
PumpRecvStep ==
    /\ pc["reader"] = "reading"
    /\ arrivals' # arrivals \/ pc'["reader"] = "callback"

\* C39: every frame invokes at most one callback, chosen by the first rule that
\* matches: a frame with "message" invokes none; else one with "name" the
\* new-token callback; else one with a tracked mint the token-trade callback;
\* else one with a tracked traderPublicKey the account-trade callback; else one
\* whose txType is "migrate" the migration callback; a frame that matches no
\* rule, one whose room has no callback and one that is no JSON invoke nothing,
\* and the read loop goes on.
C39_OneCallbackByPriority ==
    [][PumpRecvStep =>
         LET f == arrivals'[1].frame
             calls == lastCall'
             Call(room) == IF callbacks[room] # NoCb
                           THEN <<[method |-> room, callback |-> callbacks[room],
                                   arg |-> f]>>
                           ELSE <<>>
             plain == f.json /\ ~f.message /\ ~f.name
             mintTracked == f.mint # Absent /\ f.mint \in Range(subs_mints)
             traderTracked == f.trader # Absent /\ f.trader \in Range(subs_accounts)
         IN  /\ Len(calls) <= 1
             /\ pc'["reader"] = IF calls = <<>> THEN "reading" ELSE "callback"
             /\ loopEnd' = loopEnd
             /\ (~f.json \/ f.message) => calls = <<>>
             /\ (f.json /\ ~f.message /\ f.name) => calls = Call(ROOM_NEW_TOKEN)
             /\ (plain /\ mintTracked) => calls = Call(ROOM_TOKEN_TRADE)
             /\ (plain /\ ~mintTracked /\ traderTracked) =>
                   calls = Call(ROOM_ACCOUNT_TRADE)
             /\ (plain /\ ~mintTracked /\ ~traderTracked /\ f.txType = "migrate") =>
                   calls = Call(ROOM_MIGRATION)
             /\ (plain /\ ~mintTracked /\ ~traderTracked /\ f.txType # "migrate") =>
                   calls = <<>>]_vars

\* The token-trade and the migration callback are registered and M1 is tracked;
\* a frame with mint M1, a traderPublicKey and txType "migrate" arrived, and the
\* token-trade callback alone is running.
C39_Witness ==
    /\ callbacks[ROOM_TOKEN_TRADE] # NoCb /\ callbacks[ROOM_MIGRATION] # NoCb
    /\ subs_mints = <<"M1">>
    /\ pc["reader"] = "callback"
    /\ arrivals # <<>>
    /\ arrivals[1].frame.mint = "M1" /\ arrivals[1].frame.trader = "A1"
    /\ arrivals[1].frame.txType = "migrate"
    /\ ~arrivals[1].frame.name /\ ~arrivals[1].frame.message
    /\ Len(lastCall) = 1 /\ lastCall[1].method = ROOM_TOKEN_TRADE

\* ------------------------ PumpPortalWSClient: tracked mints and accounts

\* Trade frames: a JSON object with a mint alone or a traderPublicKey alone.
TradeFrames ==
    {f \in AllPumpFrames :
        /\ ~f.message /\ ~f.name /\ f.txType = Absent
        /\ (f.mint = Absent) # (f.trader = Absent)}

\* The keys the operations that add and remove single keys are called with.
SingleKeyLists == {<<"M1">>}
RemovedAccountLists == {<<"A1", "A2">>}

\* The read loop of the PumpPortal client with trade frames, the registration
\* of the trade callbacks, and the operations that change the tracked mints and
\* accounts.
NextPumpTracked ==
    \/ Start
    \/ \E f \in TradeFrames : PumpRecv(f)
    \/ \E raised \in BOOLEAN : CallbackDone(raised)
    \/ \E r \in KeyedRooms : SubscribeMethod(r, PumpCallback)
    \/ \E keys \in MintKeyLists : SubscribeTokenTrade(PumpCallback, keys)
    \/ \E keys \in SingleKeyLists : AddTokenTradeKeys(keys)
    \/ \E keys \in SingleKeyLists : RemoveTokenTradeKeys(keys)
    \/ \E keys \in SingleKeyLists : UnsubscribeTokenTrade(keys)
    \/ \E keys \in AccountKeyLists : SubscribeAccountTrade(PumpCallback, keys)
    \/ \E keys \in RemovedAccountLists : UnsubscribeAccountTrade(keys)

SpecPumpTracked == InitPumpConnected /\ [][NextPumpTracked]_vars

\* C38: a frame that carries a mint invokes the token-trade callback only if
\* the mint was added to the tracked mints and the operation that ended last is
\* not a remove_token_trade_keys or an unsubscribe_token_trade that names it;
\* and a frame that carries a traderPublicKey invokes the account-trade callback
\* only if the account was added and the operation that ended last is not an
\* unsubscribe_account_trade that names it.
C38_TrackedKeysOnly ==
    [][PumpRecvStep =>
         LET f == arrivals'[1].frame
             rooms == {lastCall'[i].method : i \in DOMAIN lastCall'}
         IN  /\ ROOM_TOKEN_TRADE \in rooms =>
                   /\ f.mint \in Range(subs_mints)
                   /\ ~(/\ lastOp.op \in {"remove_token_trade_keys",
                                          "unsubscribe_token_trade"}
                        /\ f.mint \in Range(lastOp.keys))
             /\ ROOM_ACCOUNT_TRADE \in rooms =>
                   /\ f.trader \in Range(subs_accounts)
                   /\ ~(/\ lastOp.op = "unsubscribe_account_trade"
                        /\ f.trader \in Range(lastOp.keys))]_vars

\* ------------------------------- AxiomWebSocketClient: rooms after a reconnect

\* The Axiom client's read loop and the reconnect cycles a lost connection
\* starts, with subscribe_new_tokens and subscribe_sol_price.
NextAxiomRejoin ==
    \/ AxiomStart
    \/ \E o \in AxiomConnectOutcomes : AxiomStartConnectDone(o)
    \/ AxiomConnectionClosed
    \/ AxiomDiscNotifyDone
    \/ AxiomRcEnter("reader")
    \/ AxiomRcSleepDone("reader")
    \/ AxiomRcCloseDone("reader")
    \/ \E o \in AxiomConnectOutcomes : AxiomRcConnectDone("reader", o)
    \/ AxiomRcReplayResume("reader")
    \/ AxiomRcNotifyDone("reader")
    \/ \E cb \in AxiomCallbacks : AxiomSubscribeNewTokens(cb)
    \/ \E o \in AxiomConnectOutcomes : AxiomSubscribeConnectDone(o)
    \/ \E cb \in AxiomCallbacks : AxiomSubscribeSolPrice(cb)
    \/ \E o \in AxiomConnectOutcomes : AxiomSolPriceConnectDone(o)

SpecAxiomRejoin == InitAxiom /\ [][NextAxiomRejoin]_vars

\* The join messages for room r written to the connection self.ws names.
JoinsSent(r) == {i \in DOMAIN sent : sent[i] = JoinMessage(r)}

\* C40: after a reconnect of the main connection that returned true, with the
\* caller starting nothing since the cycle began, every room a subscribe
\* operation joined before (new_pairs, sol_price) has had exactly one join
\* message sent on the new connection.
C40_EveryRoomRejoined ==
    (/\ cyc.owner = "reader" /\ cyc.result = "true" /\ cyc.quiet
     /\ ret["reader"] = "true")
    => \A r \in AxiomRooms :
          callbacks[r] # NoCb => Cardinality(JoinsSent(r)) = 1

====
